---------------------------- MODULE Spec2Model ----------------------------
(***************************************************************************)
(* Model of wikimash (src/wikimash.js): the bidirectional article search.  *)
(*   LinkFetcher  - packs titles into batches and pages through them       *)
(*   ArticleTree  - one directional search tree                            *)
(*   wikigameSolve - the loop that alternates the two trees                *)
(* The MediaWiki server is the environment: it answers a links / linkshere *)
(* request for a batch with one page of the batch's links.                 *)
(***************************************************************************)
EXTENDS Integers, Sequences, FiniteSets, TLC

(***************************************************************************)
(* Bounds of the model.                                                    *)
(***************************************************************************)
NumTitles == 4          \* articles of the wikis the search runs on
MaxEdges == 4           \* links of an enumerated wiki
MaxPage == 2            \* the server returns 1..MaxPage links per response
MaxInputLen == 120      \* longest title array handed to addArticles directly
MaxCallers == 3         \* concurrent callers of fetch()
MaxCalls == 4           \* calls the callers of a LinkFetcher make in all
NumTreeTitles == 14     \* titles a free LinkSource names to a tree
MaxTreeSteps == 5       \* calls of explore() on a tree explored on its own
MaxRotationCalls == 6   \* calls on a LinkFetcher fetched by one caller
MaxExploreCalls == 5    \* calls of explore() by the callers of one tree

(***************************************************************************)
(* Program constants.                                                      *)
(***************************************************************************)
MAX_BATCH_TITLES == 50          \* Math.min(50, articles.length)
MAX_PARAM_LENGTH == 1500        \* encodedParamLength < 1500
MIN_NEW_TITLES == 10            \* newTitles.length < 10
MAX_UNDESIRABLE_RUN == 4        \* consecutiveUndesirableBatches >= 4

undefined == -1                 \* the JavaScript value undefined
ROOT == 0                       \* the parent "_root" of a tree's root

Titles == 1..NumTitles
Direction == {"forward", "backward"}

Other(d) == IF d = "forward" THEN "backward" ELSE "forward"

Min(a, b) == IF a < b THEN a ELSE b

Last(s) == s[Len(s)]

Front(s) == SubSeq(s, 1, Len(s) - 1)

Range(s) == {s[i] : i \in 1..Len(s)}

RECURSIVE Reverse(_)
Reverse(s) == IF s = <<>> THEN <<>> ELSE Append(Reverse(Tail(s)), Head(s))

RECURSIVE Flatten(_)
Flatten(ss) == IF ss = <<>> THEN <<>> ELSE Head(ss) \o Flatten(Tail(ss))

RECURSIVE SumSeq(_)
SumSeq(s) == IF s = <<>> THEN 0 ELSE Head(s) + SumSeq(Tail(s))

(***************************************************************************)
(* Titles and their percent-encoding.  A title is a number; its text is a  *)
(* sequence of characters, each of one class:                              *)
(*   "u" unreserved ASCII (kept by encodeURIComponent, 1 character),       *)
(*   "r" other ASCII such as the space or "|" (%XX, 3 characters),         *)
(*   "w" a 3-byte UTF-8 character (%XX%XX%XX, 9 characters).               *)
(***************************************************************************)
Repeat(c, n) == [i \in 1..n |-> c]

TitleText(t) ==
    CASE t % 4 = 1 -> Repeat("w", 83)
      [] t % 4 = 2 -> Repeat("w", 85)
      [] t % 4 = 3 -> Repeat("u", 5)
      [] OTHER     -> <<"u", "u", "u", "r", "u", "u">>

EncodedWidth(c) == CASE c = "u" -> 1 [] c = "r" -> 3 [] OTHER -> 9

\* the length of encodeURIComponent(text): the encoded widths of its
\* characters added up, class by class
CountOf(text, c) == Cardinality({i \in 1..Len(text) : text[i] = c})

EncodedLength(text) ==
    CountOf(text, "u") * EncodedWidth("u")
        + CountOf(text, "r") * EncodedWidth("r")
        + CountOf(text, "w") * EncodedWidth("w")

\* encodeURIComponent(title).length
EncodedTitleLength(t) == EncodedLength(TitleText(t))

\* encodeURIComponent("|" + title).length
EncodedPipeTitleLength(t) == EncodedLength(<<"r">> \o TitleText(t))

\* encodeURIComponent(batch.titlesParam).length, titlesParam being the
\* titles joined by "|"
RECURSIVE JoinText(_)
JoinText(ts) ==
    IF ts = <<>> THEN <<>>
    ELSE IF Len(ts) = 1 THEN TitleText(ts[1])
    ELSE TitleText(ts[1]) \o <<"r">> \o JoinText(Tail(ts))

EncodedParamLength(titlesParam) == EncodedLength(JoinText(titlesParam))

(***************************************************************************)
(* LinkFetcher.  A batch is [id, titlesParam, articles, continueParam]:    *)
(* titlesParam is the sequence of titles joined into the request's titles  *)
(* parameter, articles the batch.articles array, id the identity of the   *)
(* batch object.                                                           *)
(***************************************************************************)
\* the value undefined where a batch object is expected
UndefinedBatch ==
    [id |-> 0, titlesParam |-> <<>>, articles |-> <<>>,
     continueParam |-> undefined]

NewLinkFetcher(direction) ==
    [direction |-> direction,
     linkPromise |-> "none",
     batchIndex |-> 0,
     lastBatchIndex |-> undefined,
     batches |-> <<>>,
     undesirableBatchStack |-> <<>>,
     created |-> 0]

\* the for loop of addArticles: i is the JavaScript index of the next title
RECURSIVE PackLoop(_, _, _, _, _)
PackLoop(articles, batch, i, titleCount, encodedParamLength) ==
    IF i < titleCount /\ encodedParamLength < MAX_PARAM_LENGTH
    THEN PackLoop(articles,
                  [batch EXCEPT !.articles = Append(@, articles[i + 1]),
                                !.titlesParam = Append(@, articles[i + 1])],
                  i + 1, titleCount,
                  encodedParamLength + EncodedPipeTitleLength(articles[i + 1]))
    ELSE [batch |-> batch, i |-> i]

FirstBatchOneMore(self, articles) ==
    PackLoop(articles,
             [id |-> self.created + 1,
              titlesParam |-> <<articles[1]>>,
              articles |-> <<>>,
              continueParam |-> undefined],
             1, Min(MAX_BATCH_TITLES + 1, Len(articles)),
             EncodedTitleLength(articles[1]))

\* the first batch addArticles makes of articles, and the index i of the
\* first title it leaves for the next batch
FirstBatch(self, articles) ==
    PackLoop(articles,
             [id |-> self.created + 1,
              titlesParam |-> <<articles[1]>>,
              articles |-> <<>>,
              continueParam |-> undefined],
             1, Min(MAX_BATCH_TITLES, Len(articles)),
             EncodedTitleLength(articles[1]))

RECURSIVE addArticlesSliceOffByOne(_, _)
addArticlesSliceOffByOne(self, articles) ==
    IF Len(articles) = 0 THEN self
    ELSE LET r == FirstBatch(self, articles)
         IN addArticlesSliceOffByOne(
                [self EXCEPT !.batches = Append(@, r.batch),
                             !.created = @ + 1],
                SubSeq(articles, r.i + 2, Len(articles)))

RECURSIVE addArticles(_, _)
addArticles(self, articles) ==
    IF Len(articles) = 0 THEN self
    ELSE LET r == FirstBatch(self, articles)
         IN addArticles([self EXCEPT !.batches = Append(@, r.batch),
                                     !.created = @ + 1],
                        SubSeq(articles, r.i + 1, Len(articles)))

completeActiveOnly(self) == Len(self.batches) = 0

complete(self) ==
    Len(self.batches) = 0 /\ Len(self.undesirableBatchStack) = 0

noDesirableBatches(self) == Len(self.batches) = 0

markLastBatchKeepsCandidate(self) ==
    IF self.lastBatchIndex # undefined
    THEN LET k == self.lastBatchIndex + 1
             n == Len(self.batches)
         IN [self EXCEPT
               !.batches = IF k <= n
                           THEN SubSeq(@, 1, k - 1) \o SubSeq(@, k + 1, n)
                           ELSE @,
               !.undesirableBatchStack =
                           IF k <= n THEN Append(@, self.batches[k])
                           ELSE Append(@, UndefinedBatch)]
    ELSE self

markLastBatchUndesirable(self) ==
    IF self.lastBatchIndex # undefined
    THEN LET k == self.lastBatchIndex + 1
             n == Len(self.batches)
         IN [self EXCEPT
               !.batches = IF k <= n
                           THEN SubSeq(@, 1, k - 1) \o SubSeq(@, k + 1, n)
                           ELSE @,
               !.undesirableBatchStack =
                           IF k <= n THEN Append(@, self.batches[k])
                           ELSE Append(@, UndefinedBatch),
               !.lastBatchIndex = undefined]
    ELSE self

markAllBatchesOnTop(self) ==
    [self EXCEPT !.undesirableBatchStack = self.batches,
                 !.batches = <<>>,
                 !.lastBatchIndex = undefined]

markAllBatchesUndesirable(self) ==
    [self EXCEPT !.undesirableBatchStack = @ \o self.batches,
                 !.batches = <<>>,
                 !.lastBatchIndex = undefined]


\* a non-empty continue string is truthy; undefined is not
Truthy(continueParam) == continueParam # undefined /\ continueParam # 0

\* "article in response.linkMap": linkMap is a sequence of [title, links]
\* entries, in the key order of the JavaScript object
InLinkMap(linkMap, article) ==
    \E k \in 1..Len(linkMap) : linkMap[k].title = article

selectBatchOldestParked(self) ==
    IF Len(self.batches) > 0
    THEN LET idx == (self.batchIndex + 1) % Len(self.batches)
         IN [self |-> [self EXCEPT !.batchIndex = idx,
                                   !.linkPromise = "pending"],
             currentBatch |-> self.batches[idx + 1]]
    ELSE [self |-> [self EXCEPT
                      !.undesirableBatchStack = Tail(@),
                      !.batches = Append(@, Head(self.undesirableBatchStack)),
                      !.batchIndex = 0,
                      !.linkPromise = "pending"],
          currentBatch |-> Head(self.undesirableBatchStack)]

\* the synchronous part of fetch() once it goes on to request a batch:
\* the batch selection and the rotation index
selectBatch(self) ==
    IF Len(self.batches) > 0
    THEN LET idx == (self.batchIndex + 1) % Len(self.batches)
         IN [self |-> [self EXCEPT !.batchIndex = idx,
                                   !.linkPromise = "pending"],
             currentBatch |-> self.batches[idx + 1]]
    ELSE [self |-> [self EXCEPT
                      !.undesirableBatchStack = Front(@),
                      !.batches = Append(@, Last(self.undesirableBatchStack)),
                      !.batchIndex = 0,
                      !.linkPromise = "pending"],
          currentBatch |-> Last(self.undesirableBatchStack)]

apiCallAlwaysLinks(self) == "links"

\* which of getLinks / getBacklinks fetch() calls
apiCall(self) == IF self.direction = "forward" THEN "links" ELSE "linkshere"

fetchWhenCompletePends(self) ==
    [self |-> [self EXCEPT !.linkPromise = "pending"], linkMap |-> <<>>]

\* fetch() on a LinkFetcher that is complete: instantPromise({})
fetchWhenComplete(self) == [self |-> self, linkMap |-> <<>>]

fetchKindNoWait(self) == IF complete(self) THEN "empty" ELSE "request"

fetchKindRetriesFailed(self) ==
    IF complete(self) THEN "empty"
    ELSE IF self.linkPromise = "pending" THEN "chained"
    ELSE "request"

\* what fetch() does when called: "empty" (complete: resolves with {}),
\* "chained" (waits for linkPromise, then calls fetch again) or "request"
fetchKind(self) ==
    IF complete(self) THEN "empty"
    ELSE IF self.linkPromise # "none" THEN "chained"
    ELSE "request"

NewRequestFromStart(self, currentBatch) ==
    [direction |-> self.direction,
     prop |-> apiCall(self),
     titlesParam |-> currentBatch.titlesParam,
     continueParam |-> undefined,
     currentBatch |-> currentBatch]

NewRequest(self, currentBatch) ==
    [direction |-> self.direction,
     prop |-> apiCall(self),
     titlesParam |-> currentBatch.titlesParam,
     continueParam |-> currentBatch.continueParam,
     currentBatch |-> currentBatch]

SetContinue(batchSeq, id, continueParam) ==
    [k \in 1..Len(batchSeq) |->
        IF batchSeq[k].id = id
        THEN [batchSeq[k] EXCEPT !.continueParam = continueParam]
        ELSE batchSeq[k]]

RECURSIVE FillLinkMap(_, _)
FillLinkMap(linkMap, articles) ==
    IF articles = <<>> THEN linkMap
    ELSE FillLinkMap(IF InLinkMap(linkMap, Head(articles)) THEN linkMap
                     ELSE Append(linkMap, [title |-> Head(articles),
                                           links |-> <<>>]),
                     Tail(articles))

SpliceHead(s, idx) == IF s # <<>> THEN Tail(s) ELSE s

Splice(s, idx) ==
    IF idx + 1 <= Len(s)
    THEN SubSeq(s, 1, idx) \o SubSeq(s, idx + 2, Len(s))
    ELSE s

fetchThenCursorDropped(self, currentBatch, response) ==
    IF Truthy(response.continueParam)
    THEN [self |-> [self EXCEPT !.linkPromise = "none",
                                !.lastBatchIndex = self.batchIndex],
          linkMap |-> response.linkMap]
    ELSE [self |-> [self EXCEPT
                      !.linkPromise = "none",
                      !.batches = Splice(@, self.batchIndex),
                      !.lastBatchIndex = undefined],
          linkMap |-> FillLinkMap(response.linkMap, currentBatch.articles)]

fetchThenKeepsCandidate(self, currentBatch, response) ==
    IF Truthy(response.continueParam)
    THEN [self |-> [self EXCEPT
                      !.linkPromise = "none",
                      !.batches = SetContinue(@, currentBatch.id,
                                              response.continueParam),
                      !.undesirableBatchStack =
                          SetContinue(@, currentBatch.id,
                                      response.continueParam),
                      !.lastBatchIndex = self.batchIndex],
          linkMap |-> response.linkMap]
    ELSE [self |-> [self EXCEPT
                      !.linkPromise = "none",
                      !.batches = Splice(@, self.batchIndex),
                      !.lastBatchIndex = self.batchIndex],
          linkMap |-> FillLinkMap(response.linkMap, currentBatch.articles)]

\* the handler fetch() puts on the request's promise
fetchThen(self, currentBatch, response) ==
    IF Truthy(response.continueParam)
    THEN [self |-> [self EXCEPT
                      !.linkPromise = "none",
                      !.batches = SetContinue(@, currentBatch.id,
                                              response.continueParam),
                      !.undesirableBatchStack =
                          SetContinue(@, currentBatch.id,
                                      response.continueParam),
                      !.lastBatchIndex = self.batchIndex],
          linkMap |-> response.linkMap]
    ELSE [self |-> [self EXCEPT
                      !.linkPromise = "none",
                      !.batches = Splice(@, self.batchIndex),
                      !.lastBatchIndex = undefined],
          linkMap |-> FillLinkMap(response.linkMap, currentBatch.articles)]

(***************************************************************************)
(* MediaWikiAPI.getLinks / getBacklinks as answered by the server: the     *)
(* links of the requested titles, ordered by page and by link, one page    *)
(* of at most limit links per response; continueParam is the offset the    *)
(* next page starts at.                                                    *)
(***************************************************************************)
RECURSIVE SortedSeq(_)
SortedSeq(S) ==
    IF S = {} THEN <<>>
    ELSE LET m == CHOOSE x \in S : \A y \in S : x <= y
         IN <<m>> \o SortedSeq(S \ {m})

LinksOf(wiki, prop, title) ==
    IF prop = "links" THEN {e[2] : e \in {x \in wiki : x[1] = title}}
    ELSE {e[1] : e \in {x \in wiki : x[2] = title}}

RECURSIVE PairsOf(_, _, _)
PairsOf(wiki, prop, parents) ==
    IF parents = <<>> THEN <<>>
    ELSE LET p == Head(parents)
             cs == SortedSeq(LinksOf(wiki, prop, p))
         IN [k \in 1..Len(cs) |-> <<p, cs[k]>>]
            \o PairsOf(wiki, prop, Tail(parents))

AllPairs(wiki, request) ==
    PairsOf(wiki, request.prop, SortedSeq(Range(request.titlesParam)))

\* createLinkHandler: the pages of the response that have links, each with
\* its links in order
createLinkHandler(pairs) ==
    LET parents == SortedSeq({e[1] : e \in Range(pairs)})
    IN [k \in 1..Len(parents) |->
          LET OfParent(e) == e[1] = parents[k]
              own == SelectSeq(pairs, OfParent)
          IN [title |-> parents[k],
              links |-> [j \in 1..Len(own) |-> own[j][2]]]]

ServerResponse(wiki, request, limit) ==
    LET all == AllPairs(wiki, request)
        from == IF request.continueParam = undefined THEN 0
                ELSE request.continueParam
        to == Min(from + limit, Len(all))
    IN [linkMap |-> createLinkHandler(SubSeq(all, from + 1, to)),
        continueParam |-> IF to < Len(all) THEN to ELSE undefined]

(***************************************************************************)
(* ArticleTree                                                             *)
(***************************************************************************)
NewArticleTree(rootPageTitle, direction) ==
    [direction |-> direction,
     treeObj |-> (rootPageTitle :> ROOT),
     fringe |-> {rootPageTitle},
     fringeSize |-> 1,
     depthMap |-> (rootPageTitle :> 0),
     linkFetcher |-> addArticles(NewLinkFetcher(direction), <<rootPageTitle>>),
     toExplore |-> <<>>,
     size |-> 1,
     layerSizes |-> <<1>>,
     explorePromise |-> "none",
     consecutiveUndesirableBatches |-> 0]

containsPage(self, title) == title \in DOMAIN self.treeObj

\* pathToRoot throws "title is not in the article tree."
pathToRootThrows(self, title) == ~containsPage(self, title)

RECURSIVE pathToRootPushFirst(_, _)
pathToRootPushFirst(self, title) ==
    IF self.treeObj[title] = ROOT THEN <<>>
    ELSE <<title>> \o pathToRootPushFirst(self, self.treeObj[title])

\* the path pathToRoot returns for a title of the tree
RECURSIVE pathToRoot(_, _)
pathToRoot(self, title) ==
    IF self.treeObj[title] = ROOT THEN <<>>
    ELSE <<self.treeObj[title]>> \o pathToRoot(self, self.treeObj[title])

\* a call of pathToRoot: the error thrown or the path returned, and the
\* tree after the call
pathToRootCall(self, title) ==
    IF pathToRootThrows(self, title)
    THEN [error |-> "InvalidTitle", path |-> <<>>, self |-> self]
    ELSE [error |-> "none", path |-> pathToRoot(self, title), self |-> self]

diversifyUnfringes(self) ==
    [self EXCEPT !.linkFetcher = addArticles(@, self.toExplore),
                 !.fringe = @ \ Range(self.toExplore),
                 !.toExplore = <<>>]

diversify(self) ==
    [self EXCEPT !.linkFetcher = addArticles(@, self.toExplore),
                 !.toExplore = <<>>]

exploreKindNoDiversify(self) ==
    IF self.explorePromise # "none" THEN "chained"
    ELSE IF noDesirableBatches(self.linkFetcher)
            /\ complete(self.linkFetcher) THEN "deadEnd"
    ELSE "fetch"

exploreKindNoWait(self) ==
    IF noDesirableBatches(self.linkFetcher)
       /\ complete(diversify(self).linkFetcher) THEN "deadEnd"
    ELSE "fetch"

\* what explore() does when called: "chained" (waits for explorePromise),
\* "deadEnd" or "fetch"
exploreKind(self) ==
    IF self.explorePromise # "none" THEN "chained"
    ELSE IF noDesirableBatches(self.linkFetcher)
            /\ complete(diversify(self).linkFetcher) THEN "deadEnd"
    ELSE "fetch"

\* the tree as explore() leaves it just before it calls fetch()
beforeFetch(self) ==
    IF noDesirableBatches(self.linkFetcher) THEN diversify(self) ELSE self

PadLayers(layerSizes, childDepth) ==
    IF Len(layerSizes) <= childDepth
    THEN layerSizes \o [k \in 1..(childDepth + 1 - Len(layerSizes)) |-> 0]
    ELSE layerSizes

\* childTitles.forEach of explore's handler; st is [self, newTitles]
RECURSIVE insertChildren(_, _, _)
insertChildren(st, parentTitle, childTitles) ==
    IF childTitles = <<>> THEN st
    ELSE LET childTitle == Head(childTitles)
             self == st.self
             childDepth == self.depthMap[parentTitle] + 1
             padded == PadLayers(self.layerSizes, childDepth)
         IN insertChildren(
              [self |-> [self EXCEPT
                   !.treeObj = (childTitle :> parentTitle) @@ @,
                   !.fringe = @ \cup {childTitle},
                   !.depthMap = (childTitle :> childDepth) @@ @,
                   !.toExplore = Append(@, childTitle),
                   !.layerSizes = [padded EXCEPT ![childDepth + 1] = @ + 1]],
               newTitles |-> Append(st.newTitles, childTitle)],
              parentTitle, Tail(childTitles))

RECURSIVE insertParentsUnfiltered(_, _)
insertParentsUnfiltered(st, response) ==
    IF response = <<>> THEN st
    ELSE LET parentTitle == Head(response).title
             self == st.self
             unfringed ==
                 IF parentTitle \in self.fringe
                 THEN [self EXCEPT !.fringe = @ \ {parentTitle},
                                   !.fringeSize = @ - 1]
                 ELSE self
         IN insertParentsUnfiltered(
              insertChildren([self |-> unfringed, newTitles |-> st.newTitles],
                             parentTitle, Head(response).links),
              Tail(response))

\* parentTitles.forEach of explore's handler
RECURSIVE insertParents(_, _)
insertParents(st, response) ==
    IF response = <<>> THEN st
    ELSE LET parentTitle == Head(response).title
             self == st.self
             unfringed ==
                 IF parentTitle \in self.fringe
                 THEN [self EXCEPT !.fringe = @ \ {parentTitle},
                                   !.fringeSize = @ - 1]
                 ELSE self
             NotContained(childTitle) == ~containsPage(self, childTitle)
             childTitles == SelectSeq(Head(response).links, NotContained)
         IN insertParents(
              insertChildren([self |-> unfringed, newTitles |-> st.newTitles],
                             parentTitle, childTitles),
              Tail(response))

yieldPolicyNoReset(self, newCount) ==
    IF newCount < MIN_NEW_TITLES
    THEN LET marked == [self EXCEPT
                 !.linkFetcher = markLastBatchUndesirable(@),
                 !.consecutiveUndesirableBatches = @ + 1]
         IN IF marked.consecutiveUndesirableBatches >= MAX_UNDESIRABLE_RUN
            THEN [marked EXCEPT
                    !.consecutiveUndesirableBatches = 0,
                    !.linkFetcher = markAllBatchesUndesirable(@)]
            ELSE marked
    ELSE self

\* the yield policy at the end of explore's handler
yieldPolicy(self, newCount) ==
    IF newCount < MIN_NEW_TITLES
    THEN LET marked == [self EXCEPT
                 !.linkFetcher = markLastBatchUndesirable(@),
                 !.consecutiveUndesirableBatches = @ + 1]
         IN IF marked.consecutiveUndesirableBatches >= MAX_UNDESIRABLE_RUN
            THEN [marked EXCEPT
                    !.consecutiveUndesirableBatches = 0,
                    !.linkFetcher = markAllBatchesUndesirable(@)]
            ELSE marked
    ELSE [self EXCEPT !.consecutiveUndesirableBatches = 0]

\* the handler explore() puts on the promise of fetch()
exploreThen(self, response) ==
    LET st == insertParents([self |-> [self EXCEPT !.explorePromise = "none"],
                             newTitles |-> <<>>], response)
        n == Len(st.newTitles)
        policed == yieldPolicy(st.self, n)
    IN [self |-> [policed EXCEPT !.size = @ + n, !.fringeSize = @ + n],
        newTitles |-> st.newTitles]

(***************************************************************************)
(* wikigameSolve                                                           *)
(***************************************************************************)
NumberMAX_VALUE == 1000000

RECURSIVE findCollisionEager(_, _, _, _, _)
findCollisionEager(acc, newArticles, compareTree, forwardTree, backwardTree) ==
    IF newArticles = <<>> \/ acc.error # "none" THEN acc
    ELSE LET newArticle == Head(newArticles)
             forwardPath == pathToRootCall(forwardTree, newArticle)
             backwardPath == pathToRootCall(backwardTree, newArticle)
             collisionDistance == Len(forwardPath.path) + Len(backwardPath.path)
             next ==
                 IF forwardPath.error # "none" \/ backwardPath.error # "none"
                 THEN [acc EXCEPT !.error = "InvalidTitle"]
                 ELSE IF containsPage(compareTree, newArticle)
                         /\ collisionDistance < acc.bestCollisionDistance
                 THEN [acc EXCEPT !.collision = newArticle]
                 ELSE acc
         IN findCollisionEager(next, Tail(newArticles), compareTree,
                               forwardTree, backwardTree)

findCollisionFirstOnly(acc, newArticles, compareTree, forwardTree, backwardTree) ==
    IF newArticles = <<>> THEN acc
    ELSE IF containsPage(compareTree, Head(newArticles))
    THEN [acc EXCEPT !.collision = Head(newArticles)]
    ELSE acc

\* newArticles.forEach of algorithm's handler; acc is
\* [collision, bestCollisionDistance, error], error being the error a call
\* of pathToRoot has thrown, which ends the loop
RECURSIVE findCollision(_, _, _, _, _)
findCollision(acc, newArticles, compareTree, forwardTree, backwardTree) ==
    IF newArticles = <<>> \/ acc.error # "none" THEN acc
    ELSE LET newArticle == Head(newArticles)
             forwardPath == pathToRootCall(forwardTree, newArticle)
             backwardPath == pathToRootCall(backwardTree, newArticle)
             collisionDistance == Len(forwardPath.path) + Len(backwardPath.path)
             next ==
                 IF ~containsPage(compareTree, newArticle) THEN acc
                 ELSE IF forwardPath.error # "none"
                         \/ backwardPath.error # "none"
                 THEN [acc EXCEPT !.error = "InvalidTitle"]
                 ELSE IF collisionDistance < acc.bestCollisionDistance
                 THEN [acc EXCEPT !.collision = newArticle]
                 ELSE acc
         IN findCollision(next, Tail(newArticles), compareTree,
                          forwardTree, backwardTree)

\* the last handler of wikigameSolve throws: a call of pathToRoot does
solvePathThrows(forwardTree, backwardTree, collision) ==
    \/ pathToRootCall(forwardTree, collision).error # "none"
    \/ pathToRootCall(backwardTree, collision).error # "none"

solvePathUnreversed(forwardTree, backwardTree, collision) ==
    pathToRoot(forwardTree, collision) \o <<collision>>
        \o pathToRoot(backwardTree, collision)

solvePathCollisionTwice(forwardTree, backwardTree, collision) ==
    Reverse(pathToRoot(forwardTree, collision)) \o <<collision, collision>>
        \o pathToRoot(backwardTree, collision)

\* the path the last handler of wikigameSolve returns
solvePath(forwardTree, backwardTree, collision) ==
    Reverse(pathToRoot(forwardTree, collision)) \o <<collision>>
        \o pathToRoot(backwardTree, collision)

chooseTreeTieBackward(forwardTree, backwardTree) ==
    IF forwardTree.fringeSize < backwardTree.fringeSize
    THEN "forward" ELSE "backward"

\* the tree algorithm() explores
chooseTree(forwardTree, backwardTree) ==
    IF forwardTree.fringeSize <= backwardTree.fringeSize
    THEN "forward" ELSE "backward"

(***************************************************************************)
(* The wikis the search runs on: every set of at most MaxEdges links       *)
(* between NumTitles articles.                                             *)
(***************************************************************************)
AllLinks == {e \in Titles \X Titles : e[1] # e[2]}

Wikis == {w \in SUBSET AllLinks : Cardinality(w) <= MaxEdges}

\* the titles there is a path of links to, from a title of S
RECURSIVE ReachableIn(_, _)
ReachableIn(w, S) ==
    LET more == S \cup {e[2] : e \in {x \in w : x[1] \in S}}
    IN IF more = S THEN S ELSE ReachableIn(w, more)

\* the titles there is a path of links from, to a title of S
RECURSIVE ReachingIn(_, _)
ReachingIn(w, S) ==
    LET more == S \cup {e[1] : e \in {x \in w : x[2] \in S}}
    IN IF more = S THEN S ELSE ReachingIn(w, more)

\* every link of w can be reported to a search from s to e: it leaves an
\* article s reaches or enters an article that reaches e (the other links
\* of a wiki are never seen by the search)
AllLinksVisible(w, s, e) ==
    LET fromStart == ReachableIn(w, {s})
        toEnd == ReachingIn(w, {e})
    IN \A x \in w : x[1] \in fromStart \/ x[2] \in toEnd

NoRequest ==
    [direction |-> "none", prop |-> "none", titlesParam |-> <<>>,
     continueParam |-> undefined, currentBatch |-> UndefinedBatch]

NoResponse ==
    [linkMap |-> <<>>, continueParam |-> undefined, request |-> NoRequest]

VARIABLES
    wiki,       \* the links of the wiki: <<a, b>> is a link from a to b
    start,      \* the start article
    end,        \* the end article
    tree,       \* the forward and the backward ArticleTree
    requests,   \* the API requests in flight
    response,   \* the response delivered to the handler of fetch()
    orch,       \* wikigameSolve: position, results and progress callbacks
    history,    \* per tree: what its requests have done so far
    fetcher,    \* a LinkFetcher used on its own, by the callers of driver
    driver      \* the callers of fetcher: their promises and the handlers due

vars == <<wiki, start, end, tree, requests, response, orch, history,
          fetcher, driver>>

\* paged: the titles of the batches that were answered without a cursor;
\* resumed: a request has carried a cursor; failed: a request has failed;
\* cursors: for each batch (by id) that is not fully paged, the cursor the
\* server returned last for it; fetched: the batches requested, in order,
\* each with the ids of the rotation it was selected from; left: the pairs
\* <<id, n>> of a batch that left the rotation when n requests had been sent
\* (the last two are kept for a LinkFetcher fetched by one caller);
\* passed: the titles a tree has passed to addArticles; expanded: the titles
\* the handler of explore() has met as a key of a link map
NoHistory ==
    [paged |-> {}, resumed |-> FALSE, failed |-> FALSE, cursors |-> <<>>,
     fetched |-> <<>>, left |-> {}, passed |-> {}, expanded |-> {}]

\* the history of a tree just constructed: the root is in its first batch
NewHistory(rootPageTitle) == [NoHistory EXCEPT !.passed = {rootPageTitle}]

\* the history after explore() on self has run up to its call of fetch()
Diversified(h, self) ==
    IF noDesirableBatches(self.linkFetcher)
    THEN [h EXCEPT !.passed = @ \cup Range(self.toExplore)]
    ELSE h

\* the history after the handler of explore() has gone through linkMap
Expanded(h, linkMap) ==
    [h EXCEPT !.expanded = @ \cup {linkMap[k].title : k \in 1..Len(linkMap)}]

\* the history after the response to a request for a batch was received
Answered(h, resp) ==
    LET id == resp.request.currentBatch.id
    IN IF Truthy(resp.continueParam)
       THEN [h EXCEPT !.cursors = (id :> resp.continueParam) @@ @]
       ELSE [h EXCEPT
               !.paged = @ \cup Range(resp.request.titlesParam),
               !.cursors = [k \in (DOMAIN @) \ {id} |-> @[k]]]

progressCallbackUnsolved(o, forwardTree, backwardTree, solved) ==
    [o EXCEPT !.callback =
                 [forwardSize |-> forwardTree.size,
                  forwardLayers |-> forwardTree.layerSizes,
                  backwardSize |-> backwardTree.size,
                  backwardLayers |-> backwardTree.layerSizes,
                  solved |-> FALSE]]

\* progressCallback(forwardTree, backwardTree, solved): orch keeps what the
\* last invocation was given and how many invocations had solved = true
progressCallback(o, forwardTree, backwardTree, solved) ==
    [o EXCEPT !.callback =
                 [forwardSize |-> forwardTree.size,
                  forwardLayers |-> forwardTree.layerSizes,
                  backwardSize |-> backwardTree.size,
                  backwardLayers |-> backwardTree.layerSizes,
                  solved |-> solved],
              !.solvedCallbacks = IF solved THEN @ + 1 ELSE @]

NoCallback ==
    [forwardSize |-> 0, forwardLayers |-> <<>>, backwardSize |-> 0,
     backwardLayers |-> <<>>, solved |-> FALSE]

Callers == 1..MaxCallers

\* an operation on fetcher: its name, the caller (of fetch), the articles
\* (of addArticles) and the LinkFetcher it was called on
NoOp ==
    [name |-> "none", caller |-> 0, articles |-> <<>>,
     before |-> NewLinkFetcher("forward")]

\* mode: "solve" (wikigameSolve runs, fetcher is not used), "fetch" (callers
\* use fetcher concurrently) or "add" (addArticles is applied to fetcher);
\* status: the promise each caller got from fetch(); owner: the caller whose
\* fetch() issued the request in flight; waiters: the callers chained on
\* linkPromise, in the order they called; micro: the handlers due to run;
\* calls: the calls made so far; op: the last operation on fetcher;
\* for the callers of explore() on one tree (mode "explorers"), issued: the
\* requests sent for the current call of each caller; returned: for each
\* call fulfilled, in order, its caller, the newTitles it got and the
\* requests sent for it
NoDriver ==
    [mode |-> "solve",
     status |-> [c \in Callers |-> "idle"],
     owner |-> 0,
     waiters |-> <<>>,
     micro |-> <<>>,
     calls |-> 0,
     op |-> NoOp,
     issued |-> [c \in Callers |-> 0],
     returned |-> <<>>]

Init ==
    /\ fetcher = NewLinkFetcher("forward")
    /\ driver = NoDriver
    /\ wiki \in Wikis
    /\ start \in Titles
    /\ end \in Titles
    /\ AllLinksVisible(wiki, start, end)
    /\ tree = [d \in Direction |->
                 NewArticleTree(IF d = "forward" THEN start ELSE end, d)]
    /\ requests = <<>>
    /\ response = NoResponse
    /\ orch = [pc |-> "algorithm",
               exploreTree |-> "forward",
               linkMap |-> <<>>,
               newArticles |-> <<>>,
               collision |-> undefined,
               result |-> "running",
               path |-> <<>>,
               callback |-> NoCallback,
               solvedCallbacks |-> 0]
    /\ history = [d \in Direction |->
                    NewHistory(IF d = "forward" THEN start ELSE end)]

\* algorithm(): the progress callback, the choice of the tree and the
\* synchronous part of explore() and fetch()
Algorithm ==
    /\ orch.pc = "algorithm"
    /\ LET d == chooseTree(tree["forward"], tree["backward"])
           o == [progressCallback(orch, tree["forward"], tree["backward"], FALSE)
                   EXCEPT !.exploreTree = d]
           kind == exploreKind(tree[d])
           before == beforeFetch(tree[d])
           sel == selectBatch(before.linkFetcher)
       IN IF kind = "deadEnd"
          THEN /\ tree' = [tree EXCEPT ![d] = before]
               /\ orch' = [o EXCEPT !.pc = "failed", !.result = "DeadEnd"]
               /\ UNCHANGED <<requests, history>>
          ELSE IF kind = "fetch" /\ fetchKind(before.linkFetcher) = "request"
          THEN /\ tree' = [tree EXCEPT ![d] =
                              [before EXCEPT !.linkFetcher = sel.self,
                                             !.explorePromise = "pending"]]
               /\ requests' = Append(requests,
                                     NewRequest(sel.self, sel.currentBatch))
               /\ orch' = [o EXCEPT !.pc = "awaitResponse"]
               /\ history' = [history EXCEPT ![d] =
                    [Diversified(@, tree[d]) EXCEPT !.resumed =
                        @ \/ sel.currentBatch.continueParam # undefined]]
          ELSE /\ orch' = [o EXCEPT !.pc = "chained"]
               /\ UNCHANGED <<tree, requests, history>>
    /\ UNCHANGED <<wiki, start, end, response, fetcher, driver>>

\* the server answers the request in flight with one page of links
MediaWikiRespond ==
    /\ requests # <<>>
    /\ orch.pc = "awaitResponse"
    /\ \E limit \in 1..MaxPage :
          LET r == ServerResponse(wiki, Head(requests), limit)
          IN response' = [linkMap |-> r.linkMap,
                          continueParam |-> r.continueParam,
                          request |-> Head(requests)]
    /\ requests' = Tail(requests)
    /\ orch' = [orch EXCEPT !.pc = "fetchThen"]
    /\ UNCHANGED <<wiki, start, end, tree, history, fetcher, driver>>

\* the request fails: no handler of fetch, explore or algorithm runs, the
\* promise of wikigameSolve is rejected
MediaWikiFail ==
    /\ requests # <<>>
    /\ orch.pc = "awaitResponse"
    /\ requests' = Tail(requests)
    /\ tree' = [tree EXCEPT ![Head(requests).direction] =
                   [@ EXCEPT !.linkFetcher.linkPromise = "rejected",
                             !.explorePromise = "rejected"]]
    /\ orch' = [orch EXCEPT !.pc = "failed", !.result = "TransportError"]
    /\ history' = [history EXCEPT ![Head(requests).direction].failed = TRUE]
    /\ UNCHANGED <<wiki, start, end, response, fetcher, driver>>

FetchThen ==
    /\ orch.pc = "fetchThen"
    /\ LET d == orch.exploreTree
           r == fetchThen(tree[d].linkFetcher, response.request.currentBatch,
                          response)
       IN /\ tree' = [tree EXCEPT ![d].linkFetcher = r.self]
          /\ orch' = [orch EXCEPT !.pc = "exploreThen", !.linkMap = r.linkMap]
    /\ response' = NoResponse
    /\ history' = [history EXCEPT ![orch.exploreTree] = Answered(@, response)]
    /\ UNCHANGED <<wiki, start, end, requests, fetcher, driver>>

ExploreThen ==
    /\ orch.pc = "exploreThen"
    /\ LET d == orch.exploreTree
           r == exploreThen(tree[d], orch.linkMap)
       IN /\ tree' = [tree EXCEPT ![d] = r.self]
          /\ orch' = [orch EXCEPT !.pc = "algorithmThen",
                                  !.linkMap = <<>>,
                                  !.newArticles = r.newTitles]
          /\ history' = [history EXCEPT ![d] = Expanded(@, orch.linkMap)]
    /\ UNCHANGED <<wiki, start, end, requests, response, fetcher, driver>>

AlgorithmThen ==
    /\ orch.pc = "algorithmThen"
    /\ LET found == findCollision(
                      [collision |-> undefined,
                       bestCollisionDistance |-> NumberMAX_VALUE,
                       error |-> "none"],
                      orch.newArticles, tree[Other(orch.exploreTree)],
                      tree["forward"], tree["backward"])
       IN IF found.error # "none"
          THEN orch' = [orch EXCEPT !.pc = "failed", !.result = found.error]
          ELSE orch' = [orch EXCEPT
                          !.collision = found.collision,
                          !.pc = IF found.collision # undefined
                                 THEN "solveThen" ELSE "algorithm"]
    /\ UNCHANGED <<wiki, start, end, tree, requests, response, history,
                   fetcher, driver>>

SolveThen ==
    /\ orch.pc = "solveThen"
    /\ orch' =
          IF solvePathThrows(tree["forward"], tree["backward"], orch.collision)
          THEN [progressCallback(orch, tree["forward"], tree["backward"], TRUE)
                  EXCEPT !.pc = "failed", !.result = "InvalidTitle"]
          ELSE [progressCallback(orch, tree["forward"], tree["backward"], TRUE)
                  EXCEPT !.pc = "done",
                         !.result = "solved",
                         !.path = solvePath(tree["forward"], tree["backward"],
                                            orch.collision)]
    /\ UNCHANGED <<wiki, start, end, tree, requests, response, history,
                   fetcher, driver>>

Next ==
    \/ Algorithm
    \/ MediaWikiRespond
    \/ MediaWikiFail
    \/ FetchThen
    \/ ExploreThen
    \/ AlgorithmThen
    \/ SolveThen

Spec == Init /\ [][Next]_vars

(***************************************************************************)
(* A LinkFetcher used on its own.  Its callers call fetch() at any time,   *)
(* also while a request is in flight; addArticles and the two mark         *)
(* operations are called between requests, as ArticleTree does.  A promise *)
(* that settles queues its handlers in the order they were attached, and   *)
(* the handlers due all run before the next call or response.              *)
(***************************************************************************)
SolveIdle ==
    /\ tree = [d \in Direction |-> NewArticleTree(1, d)]
    /\ orch = [pc |-> "idle",
               exploreTree |-> "forward",
               linkMap |-> <<>>,
               newArticles |-> <<>>,
               collision |-> undefined,
               result |-> "running",
               path |-> <<>>,
               callback |-> NoCallback,
               solvedCallbacks |-> 0]
    /\ start = 1
    /\ end = 1

\* the wikis a LinkFetcher on its own pages through: links of article 1
FetcherWikis == {w \in Wikis : \A e \in w : e[1] = 1}

FetcherInputs == {<<1>>, <<1, 3>>, <<1, 2, 3>>, <<3, 1, 2, 4>>}

InitFetch ==
    /\ SolveIdle
    /\ wiki \in FetcherWikis
    /\ \E articles \in FetcherInputs :
          fetcher = addArticles(NewLinkFetcher("forward"), articles)
    /\ driver = [NoDriver EXCEPT !.mode = "fetch"]
    /\ requests = <<>>
    /\ response = NoResponse
    /\ history = [d \in Direction |-> NoHistory]

\* fetch() called by c, from outside or from the handler that calls it
\* again; st is [fetcher, driver, requests, history]
callFetch(st, c) ==
    LET kind == fetchKind(st.fetcher)
        sel == selectBatch(st.fetcher)
    IN IF kind = "empty"
       THEN [st EXCEPT !.fetcher = fetchWhenComplete(@).self,
                       !.driver.status[c] = "resolved"]
       ELSE IF kind = "chained"
       THEN IF st.fetcher.linkPromise = "pending"
            THEN [st EXCEPT !.driver.status[c] = "waiting",
                            !.driver.waiters = Append(@, c)]
            ELSE [st EXCEPT !.driver.status[c] = "rejected"]
       ELSE [st EXCEPT
               !.fetcher = sel.self,
               !.requests = Append(@, NewRequest(sel.self, sel.currentBatch)),
               !.driver.status[c] = "requested",
               !.driver.owner = c,
               !.history["forward"].resumed =
                   @ \/ sel.currentBatch.continueParam # undefined]

CallerQuiet ==
    /\ driver.mode = "fetch"
    /\ driver.micro = <<>>
    /\ response = NoResponse

CallFetch(c) ==
    /\ CallerQuiet
    /\ driver.status[c] \in {"idle", "resolved", "rejected"}
    /\ driver.calls < MaxCalls
    /\ LET st == callFetch([fetcher |-> fetcher,
                            driver |-> [driver EXCEPT
                                          !.calls = @ + 1,
                                          !.op = [NoOp EXCEPT
                                                    !.name = "fetch",
                                                    !.caller = c,
                                                    !.before = fetcher]],
                            requests |-> requests,
                            history |-> history], c)
       IN /\ fetcher' = st.fetcher
          /\ driver' = st.driver
          /\ requests' = st.requests
          /\ history' = st.history
    /\ UNCHANGED <<wiki, start, end, tree, response, orch>>

\* the server answers the request in flight: the handler of fetch() and
\* then the handlers of the callers chained on linkPromise become due
FetchRespond ==
    /\ CallerQuiet
    /\ requests # <<>>
    /\ \E limit \in 1..MaxPage :
          LET r == ServerResponse(wiki, Head(requests), limit)
          IN response' = [linkMap |-> r.linkMap,
                          continueParam |-> r.continueParam,
                          request |-> Head(requests)]
    /\ requests' = Tail(requests)
    /\ driver' = [driver EXCEPT
                    !.micro = <<[task |-> "fetchThen", caller |-> driver.owner]>>
                       \o [k \in 1..Len(driver.waiters) |->
                             [task |-> "fetchAgain",
                              caller |-> driver.waiters[k]]],
                    !.waiters = <<>>]
    /\ UNCHANGED <<wiki, start, end, tree, orch, history, fetcher>>

\* the request fails: linkPromise stays rejected, and so is every promise
\* derived from it
FetchFail ==
    /\ CallerQuiet
    /\ requests # <<>>
    /\ requests' = Tail(requests)
    /\ fetcher' = [fetcher EXCEPT !.linkPromise = "rejected"]
    /\ driver' = [driver EXCEPT
                    !.status = [c \in Callers |->
                                  IF c = driver.owner \/ c \in Range(driver.waiters)
                                  THEN "rejected" ELSE @[c]],
                    !.waiters = <<>>]
    /\ history' = [history EXCEPT !["forward"].failed = TRUE]
    /\ UNCHANGED <<wiki, start, end, tree, response, orch>>

\* the handler fetch() put on the request's promise
RunFetchThen ==
    /\ driver.mode = "fetch"
    /\ driver.micro # <<>>
    /\ Head(driver.micro).task = "fetchThen"
    /\ LET r == fetchThen(fetcher, response.request.currentBatch, response)
       IN fetcher' = r.self
    /\ driver' = [driver EXCEPT !.micro = Tail(@),
                                !.status[Head(driver.micro).caller] = "resolved"]
    /\ history' = [history EXCEPT !["forward"] = Answered(@, response)]
    /\ response' = NoResponse
    /\ UNCHANGED <<wiki, start, end, tree, requests, orch>>

\* the handler a chained caller put on linkPromise: it calls fetch() again
RunFetchAgain ==
    /\ driver.mode = "fetch"
    /\ driver.micro # <<>>
    /\ Head(driver.micro).task = "fetchAgain"
    /\ LET st == callFetch([fetcher |-> fetcher,
                            driver |-> [driver EXCEPT !.micro = Tail(@)],
                            requests |-> requests,
                            history |-> history], Head(driver.micro).caller)
       IN /\ fetcher' = st.fetcher
          /\ driver' = st.driver
          /\ requests' = st.requests
          /\ history' = st.history
    /\ UNCHANGED <<wiki, start, end, tree, response, orch>>

BetweenRequests == CallerQuiet /\ requests = <<>> /\ driver.calls < MaxCalls

CallMarkLast ==
    /\ BetweenRequests
    /\ fetcher' = markLastBatchUndesirable(fetcher)
    /\ driver' = [driver EXCEPT !.calls = @ + 1,
                                !.op = [NoOp EXCEPT !.name = "markLast",
                                                    !.before = fetcher]]
    /\ UNCHANGED <<wiki, start, end, tree, requests, response, orch, history>>

CallMarkAll ==
    /\ BetweenRequests
    /\ fetcher' = markAllBatchesUndesirable(fetcher)
    /\ driver' = [driver EXCEPT !.calls = @ + 1,
                                !.op = [NoOp EXCEPT !.name = "markAll",
                                                    !.before = fetcher]]
    /\ UNCHANGED <<wiki, start, end, tree, requests, response, orch, history>>

CallAddArticles ==
    /\ BetweenRequests
    /\ \E articles \in {<<>>, <<4>>, <<2, 4>>} :
          /\ fetcher' = addArticles(fetcher, articles)
          /\ driver' = [driver EXCEPT !.calls = @ + 1,
                                      !.op = [NoOp EXCEPT
                                                !.name = "addArticles",
                                                !.articles = articles,
                                                !.before = fetcher]]
    /\ UNCHANGED <<wiki, start, end, tree, requests, response, orch, history>>

NextFetch ==
    \/ \E c \in Callers : CallFetch(c)
    \/ FetchRespond
    \/ FetchFail
    \/ RunFetchThen
    \/ RunFetchAgain
    \/ CallMarkLast
    \/ CallMarkAll
    \/ CallAddArticles

SpecFetch == InitFetch /\ [][NextFetch]_vars

\* wikigameSolve runs, or a LinkFetcher is used on its own
SpecSolveOrFetch == (Init \/ InitFetch) /\ [][Next \/ NextFetch]_vars

(***************************************************************************)
(* addArticles applied to a LinkFetcher: to a new one, to one with active  *)
(* batches, to one with a stored cursor and a demotion candidate, to one   *)
(* with a parked batch.  The title arrays are runs of short titles, of     *)
(* long titles, and of both.                                               *)
(***************************************************************************)
ShortTitles(n) ==
    [k \in 1..n |-> 4 * ((k - 1) \div 2) + (IF k % 2 = 1 THEN 3 ELSE 4)]

LongTitles(n) ==
    [k \in 1..n |-> 4 * ((k - 1) \div 2) + (IF k % 2 = 1 THEN 1 ELSE 2)]

MixedTitles(n) == [k \in 1..n |-> k]

InputSeqs ==
    {ShortTitles(n) : n \in 0..MaxInputLen}
        \cup {LongTitles(n) : n \in 0..MaxInputLen}
        \cup {MixedTitles(n) : n \in 0..MaxInputLen}

WithTwoBatches ==
    addArticles(addArticles(NewLinkFetcher("forward"), <<3, 4>>), <<1>>)

WithCursor ==
    LET sel == selectBatch(WithTwoBatches)
    IN fetchThen(sel.self, sel.currentBatch,
                 [linkMap |-> <<>>, continueParam |-> 1]).self

WithParked == markLastBatchUndesirable(WithCursor)

AddPrestates ==
    {NewLinkFetcher("forward"), WithTwoBatches, WithCursor, WithParked}

InitAdd ==
    /\ SolveIdle
    /\ wiki = {}
    /\ fetcher \in AddPrestates
    /\ driver = [NoDriver EXCEPT !.mode = "add"]
    /\ requests = <<>>
    /\ response = NoResponse
    /\ history = [d \in Direction |-> NoHistory]

AddArticles ==
    /\ driver.mode = "add"
    /\ driver.op.name = "none"
    /\ \E articles \in InputSeqs :
          /\ fetcher' = addArticles(fetcher, articles)
          /\ driver' = [driver EXCEPT !.op = [NoOp EXCEPT
                                                !.name = "addArticles",
                                                !.articles = articles,
                                                !.before = fetcher]]
    /\ UNCHANGED <<wiki, start, end, tree, requests, response, orch, history>>

SpecAdd == InitAdd /\ [][AddArticles]_vars

(***************************************************************************)
(* An ArticleTree explored on its own: its caller calls explore() again    *)
(* whenever the last call has settled.  The LinkSource is free: it answers *)
(* a request with links of titles of the batch, to any titles, in any      *)
(* order and as often as it likes, with or without a cursor.               *)
(***************************************************************************)
TreeTitles == 1..NumTreeTitles

\* the titles a, a + 1, ... b
Run(a, b) == [k \in 1..(b - a + 1) |-> a + k - 1]

\* the titles with a long text, which fill a batch two by two
LongTreeTitles == SortedSeq({t \in 2..NumTreeTitles : t % 4 \in {1, 2}})

\* the child lists the LinkSource answers with: a title twice, the root
\* and another title, the long titles, one title fewer than the yield
\* threshold, and as many
ChildLists ==
    {<<3, 3>>, <<1, 4>>, LongTreeTitles,
     Run(NumTreeTitles - MIN_NEW_TITLES + 2, NumTreeTitles),
     Run(NumTreeTitles - MIN_NEW_TITLES + 1, NumTreeTitles)}

\* the parents it reports links of: the first title of the batch, or all
\* of its titles
ParentLists(titlesParam) == {<<Head(titlesParam)>>, titlesParam}

RECURSIVE PairsWith(_, _)
PairsWith(parents, childTitles) ==
    IF parents = <<>> THEN <<>>
    ELSE [k \in 1..Len(childTitles) |-> <<Head(parents), childTitles[k]>>]
            \o PairsWith(Tail(parents), childTitles)

\* the responses to a request, as createLinkHandler hands them to fetch()
LinkSourceResponses(request) ==
    {[linkMap |-> <<>>, continueParam |-> undefined, request |-> request]}
    \cup
    {[linkMap |-> createLinkHandler(PairsWith(parents, childTitles)),
      continueParam |-> continueParam,
      request |-> request] :
        parents \in ParentLists(request.titlesParam),
        childTitles \in ChildLists,
        continueParam \in {undefined, 1}}

InitTree ==
    /\ SolveIdle
    /\ wiki = {}
    /\ fetcher = NewLinkFetcher("forward")
    /\ driver = [NoDriver EXCEPT !.mode = "tree"]
    /\ requests = <<>>
    /\ response = NoResponse
    /\ history = [d \in Direction |-> NewHistory(1)]

\* explore() is called: the synchronous part of explore() and of fetch()
TreeExplore ==
    /\ driver.mode = "tree"
    /\ orch.pc = "idle"
    /\ driver.calls < MaxTreeSteps
    /\ LET self == tree["forward"]
           before == beforeFetch(self)
           sel == selectBatch(before.linkFetcher)
       IN IF exploreKind(self) = "deadEnd"
          THEN /\ tree' = [tree EXCEPT !["forward"] = before]
               /\ orch' = [orch EXCEPT !.result = "DeadEnd"]
               /\ UNCHANGED <<requests, history>>
          ELSE /\ exploreKind(self) = "fetch"
               /\ fetchKind(before.linkFetcher) = "request"
               /\ tree' = [tree EXCEPT !["forward"] =
                             [before EXCEPT !.linkFetcher = sel.self,
                                            !.explorePromise = "pending"]]
               /\ requests' = Append(requests,
                                     NewRequest(sel.self, sel.currentBatch))
               /\ orch' = [orch EXCEPT !.pc = "treeAwait",
                                       !.result = "running"]
               /\ history' = [history EXCEPT !["forward"] =
                    [Diversified(@, self) EXCEPT !.resumed =
                        @ \/ sel.currentBatch.continueParam # undefined]]
    /\ driver' = [driver EXCEPT !.calls = @ + 1]
    /\ UNCHANGED <<wiki, start, end, response, fetcher>>

LinkSourceRespond ==
    /\ driver.mode = "tree"
    /\ orch.pc = "treeAwait"
    /\ requests # <<>>
    /\ response' \in LinkSourceResponses(Head(requests))
    /\ requests' = Tail(requests)
    /\ orch' = [orch EXCEPT !.pc = "treeFetchThen"]
    /\ UNCHANGED <<wiki, start, end, tree, history, fetcher, driver>>

\* the handler of fetch() on the response
TreeFetchThen ==
    /\ orch.pc = "treeFetchThen"
    /\ LET r == fetchThen(tree["forward"].linkFetcher,
                          response.request.currentBatch, response)
       IN /\ tree' = [tree EXCEPT !["forward"].linkFetcher = r.self]
          /\ orch' = [orch EXCEPT !.pc = "treeExploreThen",
                                  !.linkMap = r.linkMap]
    /\ response' = NoResponse
    /\ history' = [history EXCEPT !["forward"] = Answered(@, response)]
    /\ UNCHANGED <<wiki, start, end, requests, fetcher, driver>>

\* the handler of explore() on the link map; orch keeps the link map and
\* the new titles of the last step
TreeExploreThen ==
    /\ orch.pc = "treeExploreThen"
    /\ LET r == exploreThen(tree["forward"], orch.linkMap)
       IN /\ tree' = [tree EXCEPT !["forward"] = r.self]
          /\ orch' = [orch EXCEPT !.pc = "idle",
                                  !.newArticles = r.newTitles]
          /\ history' = [history EXCEPT !["forward"] =
                            Expanded(@, orch.linkMap)]
    /\ UNCHANGED <<wiki, start, end, requests, response, fetcher, driver>>

NextTree ==
    \/ TreeExplore
    \/ LinkSourceRespond
    \/ TreeFetchThen
    \/ TreeExploreThen

SpecTree == InitTree /\ [][NextTree]_vars

\* wikigameSolve runs, or an ArticleTree is explored on its own
SpecSolveOrTree == (Init \/ InitTree) /\ [][Next \/ NextTree]_vars

(***************************************************************************)
(* A LinkFetcher with several batches, fetched by one caller that waits    *)
(* for each response before it calls again, and that may call              *)
(* markLastBatchUndesirable, markAllBatchesUndesirable or addArticles      *)
(* between two requests.  The LinkSource is free to answer with or         *)
(* without a cursor, or to fail.  status[1] is the promise the caller got  *)
(* last and orch.linkMap the link map it was fulfilled with.  The history  *)
(* keeps the batches fetched, in order, each with the rotation it was      *)
(* selected from, and when each batch left the rotation.                   *)
(***************************************************************************)
BatchIds(batchSeq) == {batchSeq[k].id : k \in 1..Len(batchSeq)}

\* title arrays that addArticles packs into three and into four batches
RotationInputs == {SubSeq(LongTreeTitles, 1, 5), LongTreeTitles}

RotationResponses(request) ==
    {[linkMap |-> <<>>, continueParam |-> undefined, request |-> request],
     [linkMap |-> createLinkHandler(
                      PairsWith(<<Head(request.titlesParam)>>, <<3>>)),
      continueParam |-> 1,
      request |-> request]}

\* the history after the batches of gone have left the rotation
Left(h, gone) ==
    [h EXCEPT !.left = @ \cup {<<id, Len(h.fetched)>> : id \in gone}]

InitRotation ==
    /\ SolveIdle
    /\ wiki = {}
    /\ \E articles \in RotationInputs :
          fetcher = addArticles(NewLinkFetcher("forward"), articles)
    /\ driver = [NoDriver EXCEPT !.mode = "rotate"]
    /\ requests = <<>>
    /\ response = NoResponse
    /\ history = [d \in Direction |-> NoHistory]

\* fetch() is called while no request is outstanding
RotationFetch ==
    /\ driver.mode = "rotate"
    /\ orch.pc = "idle"
    /\ driver.calls < MaxRotationCalls
    /\ LET sel == selectBatch(fetcher)
           kind == fetchKind(fetcher)
           done == fetchWhenComplete(fetcher)
       IN /\ IF kind = "request"
             THEN /\ fetcher' = sel.self
                  /\ requests' = Append(requests,
                                        NewRequest(sel.self, sel.currentBatch))
                  /\ history' = [history EXCEPT
                       !["forward"].fetched =
                           Append(@, [id |-> sel.currentBatch.id,
                                      rotation |-> BatchIds(sel.self.batches)]),
                       !["forward"].resumed =
                           @ \/ sel.currentBatch.continueParam # undefined]
                  /\ orch' = [orch EXCEPT !.pc = "rotateAwait",
                                          !.linkMap = <<>>]
             ELSE IF kind = "empty"
             THEN /\ fetcher' = done.self
                  /\ orch' = [orch EXCEPT !.linkMap = done.linkMap]
                  /\ UNCHANGED <<requests, history>>
             ELSE UNCHANGED <<fetcher, requests, history, orch>>
          /\ driver' = [driver EXCEPT
                          !.calls = @ + 1,
                          !.status[1] = IF kind = "request" THEN "requested"
                                        ELSE IF kind = "empty" THEN "resolved"
                                        ELSE "rejected",
                          !.op = [NoOp EXCEPT !.name = "fetch",
                                              !.before = fetcher]]
    /\ UNCHANGED <<wiki, start, end, tree, response>>

RotationRespond ==
    /\ driver.mode = "rotate"
    /\ orch.pc = "rotateAwait"
    /\ requests # <<>>
    /\ response' \in RotationResponses(Head(requests))
    /\ requests' = Tail(requests)
    /\ orch' = [orch EXCEPT !.pc = "rotateFetchThen"]
    /\ UNCHANGED <<wiki, start, end, tree, history, fetcher, driver>>

\* the handler of fetch() on the response
RotationFetchThen ==
    /\ orch.pc = "rotateFetchThen"
    /\ LET r == fetchThen(fetcher, response.request.currentBatch, response)
       IN /\ fetcher' = r.self
          /\ history' = [history EXCEPT !["forward"] =
                Left(Answered(@, response),
                     BatchIds(fetcher.batches) \ BatchIds(r.self.batches))]
          /\ orch' = [orch EXCEPT !.pc = "idle", !.linkMap = r.linkMap]
    /\ response' = NoResponse
    /\ driver' = [driver EXCEPT !.status[1] = "resolved",
                                !.op = [NoOp EXCEPT !.name = "fetchThen",
                                                    !.before = fetcher]]
    /\ UNCHANGED <<wiki, start, end, tree, requests>>

RotationMarkLast ==
    /\ driver.mode = "rotate"
    /\ orch.pc = "idle"
    /\ driver.calls < MaxRotationCalls
    /\ fetcher' = markLastBatchUndesirable(fetcher)
    /\ history' = [history EXCEPT !["forward"] =
          Left(@, BatchIds(fetcher.batches) \ BatchIds(fetcher'.batches))]
    /\ driver' = [driver EXCEPT !.calls = @ + 1,
                                !.op = [NoOp EXCEPT !.name = "markLast",
                                                    !.before = fetcher]]
    /\ UNCHANGED <<wiki, start, end, tree, requests, response, orch>>

RotationMarkAll ==
    /\ driver.mode = "rotate"
    /\ orch.pc = "idle"
    /\ driver.calls < MaxRotationCalls
    /\ fetcher' = markAllBatchesUndesirable(fetcher)
    /\ history' = [history EXCEPT !["forward"] =
          Left(@, BatchIds(fetcher.batches))]
    /\ driver' = [driver EXCEPT !.calls = @ + 1,
                                !.op = [NoOp EXCEPT !.name = "markAll",
                                                    !.before = fetcher]]
    /\ UNCHANGED <<wiki, start, end, tree, requests, response, orch>>

\* the request fails: the promise of fetch() is rejected, linkPromise stays
RotationFail ==
    /\ driver.mode = "rotate"
    /\ orch.pc = "rotateAwait"
    /\ requests # <<>>
    /\ requests' = Tail(requests)
    /\ fetcher' = [fetcher EXCEPT !.linkPromise = "rejected"]
    /\ history' = [history EXCEPT !["forward"].failed = TRUE]
    /\ orch' = [orch EXCEPT !.pc = "idle"]
    /\ driver' = [driver EXCEPT !.status[1] = "rejected"]
    /\ UNCHANGED <<wiki, start, end, tree, response>>

RotationAddArticles ==
    /\ driver.mode = "rotate"
    /\ orch.pc = "idle"
    /\ driver.calls < MaxRotationCalls
    /\ fetcher.created < Len(LongTreeTitles)
    /\ fetcher' = addArticles(fetcher, <<3>>)
    /\ driver' = [driver EXCEPT !.calls = @ + 1,
                                !.op = [NoOp EXCEPT !.name = "addArticles",
                                                    !.articles = <<3>>,
                                                    !.before = fetcher]]
    /\ UNCHANGED <<wiki, start, end, tree, requests, response, orch, history>>

NextRotation ==
    \/ RotationFetch
    \/ RotationRespond
    \/ RotationFetchThen
    \/ RotationMarkLast
    \/ RotationMarkAll
    \/ RotationFail
    \/ RotationAddArticles

SpecRotation == InitRotation /\ [][NextRotation]_vars

\* wikigameSolve runs, an ArticleTree is explored on its own, or a
\* LinkFetcher is fetched by one caller
SpecSolveOrTreeOrRotation ==
    (Init \/ InitTree \/ InitRotation)
        /\ [][Next \/ NextTree \/ NextRotation]_vars

(***************************************************************************)
(* An ArticleTree whose explore() is called by several callers at any      *)
(* time, also while a step is outstanding.  A call that finds              *)
(* explorePromise set attaches a handler to it that calls explore() again; *)
(* the handler of explore() itself was attached first, so it runs first    *)
(* when the promise is fulfilled.                                          *)
(***************************************************************************)
ExplorerResponses(request) ==
    {[linkMap |-> <<>>, continueParam |-> undefined, request |-> request]}
    \cup {[linkMap |-> createLinkHandler(
                           PairsWith(<<Head(request.titlesParam)>>,
                                     childTitles)),
           continueParam |-> continueParam,
           request |-> request] :
            childTitles \in {<<2, 3>>, <<3, 4>>},
            continueParam \in {undefined, 1}}

InitExplorers ==
    /\ SolveIdle
    /\ wiki = {}
    /\ fetcher = NewLinkFetcher("forward")
    /\ driver = [NoDriver EXCEPT !.mode = "explorers"]
    /\ requests = <<>>
    /\ response = NoResponse
    /\ history = [d \in Direction |-> NewHistory(1)]

\* explore() called by c, from outside or from the handler that calls it
\* again; st is [self, driver, requests, history].  When explore() goes on
\* to fetch(), explorePromise is unset, so the handler of the last request
\* has run and fetch() finds linkPromise unset
callExplore(st, c) ==
    LET kind == exploreKind(st.self)
        before == beforeFetch(st.self)
        sel == selectBatch(before.linkFetcher)
    IN IF kind = "chained"
       THEN IF st.self.explorePromise = "pending"
            THEN [st EXCEPT !.driver.status[c] = "waiting",
                            !.driver.waiters = Append(@, c)]
            ELSE [st EXCEPT !.driver.status[c] = "rejected"]
       ELSE IF kind = "deadEnd"
       THEN [st EXCEPT !.self = before,
                       !.driver.status[c] = "rejected"]
       ELSE [st EXCEPT
               !.self = [before EXCEPT !.linkFetcher = sel.self,
                                       !.explorePromise = "pending"],
               !.requests = Append(@, NewRequest(sel.self, sel.currentBatch)),
               !.driver.status[c] = "requested",
               !.driver.owner = c,
               !.driver.issued[c] = @ + 1,
               !.history =
                   [Diversified(@, st.self) EXCEPT
                      !.fetched = Append(@, [id |-> sel.currentBatch.id,
                                             rotation |->
                                                 BatchIds(sel.self.batches)]),
                      !.resumed =
                          @ \/ sel.currentBatch.continueParam # undefined]]

ExplorersQuiet ==
    /\ driver.mode = "explorers"
    /\ driver.micro = <<>>

CallExplore(c) ==
    /\ ExplorersQuiet
    /\ driver.status[c] \in {"idle", "resolved", "rejected"}
    /\ driver.calls < MaxExploreCalls
    /\ LET st == callExplore([self |-> tree["forward"],
                              driver |-> [driver EXCEPT
                                            !.calls = @ + 1,
                                            !.issued[c] = 0],
                              requests |-> requests,
                              history |-> history["forward"]], c)
       IN /\ tree' = [tree EXCEPT !["forward"] = st.self]
          /\ driver' = st.driver
          /\ requests' = st.requests
          /\ history' = [history EXCEPT !["forward"] = st.history]
    /\ UNCHANGED <<wiki, start, end, response, orch, fetcher>>

\* the response arrives: the handler of fetch() is due, then the handlers
\* on explorePromise in the order they were attached
ExplorersRespond ==
    /\ ExplorersQuiet
    /\ requests # <<>>
    /\ response' \in ExplorerResponses(Head(requests))
    /\ requests' = Tail(requests)
    /\ driver' = [driver EXCEPT
                    !.micro = <<[task |-> "fetchThen", caller |-> driver.owner],
                                [task |-> "exploreThen", caller |-> driver.owner]>>
                       \o [k \in 1..Len(driver.waiters) |->
                             [task |-> "exploreAgain",
                              caller |-> driver.waiters[k]]],
                    !.waiters = <<>>]
    /\ UNCHANGED <<wiki, start, end, tree, orch, history, fetcher>>

\* the request fails: linkPromise and explorePromise stay rejected, and so
\* is every promise derived from them
ExplorersFail ==
    /\ ExplorersQuiet
    /\ requests # <<>>
    /\ requests' = Tail(requests)
    /\ tree' = [tree EXCEPT !["forward"] =
                   [@ EXCEPT !.linkFetcher.linkPromise = "rejected",
                             !.explorePromise = "rejected"]]
    /\ driver' = [driver EXCEPT
                    !.status = [c \in Callers |->
                                  IF c = driver.owner \/ c \in Range(driver.waiters)
                                  THEN "rejected" ELSE @[c]],
                    !.waiters = <<>>]
    /\ history' = [history EXCEPT !["forward"].failed = TRUE]
    /\ UNCHANGED <<wiki, start, end, response, orch, fetcher>>

\* the handler of fetch() on the response
RunExplorersFetchThen ==
    /\ driver.mode = "explorers"
    /\ driver.micro # <<>>
    /\ Head(driver.micro).task = "fetchThen"
    /\ LET r == fetchThen(tree["forward"].linkFetcher,
                          response.request.currentBatch, response)
       IN /\ tree' = [tree EXCEPT !["forward"].linkFetcher = r.self]
          /\ orch' = [orch EXCEPT !.linkMap = r.linkMap]
    /\ driver' = [driver EXCEPT !.micro = Tail(@)]
    /\ response' = NoResponse
    /\ history' = [history EXCEPT !["forward"] = Answered(@, response)]
    /\ UNCHANGED <<wiki, start, end, requests, fetcher>>

\* the handler of explore() on the link map: its caller gets newTitles
RunExploreThen ==
    /\ driver.mode = "explorers"
    /\ driver.micro # <<>>
    /\ Head(driver.micro).task = "exploreThen"
    /\ LET c == Head(driver.micro).caller
           r == exploreThen(tree["forward"], orch.linkMap)
       IN /\ tree' = [tree EXCEPT !["forward"] = r.self]
          /\ orch' = [orch EXCEPT !.linkMap = <<>>,
                                  !.newArticles = r.newTitles]
          /\ driver' = [driver EXCEPT
                          !.micro = Tail(@),
                          !.status[c] = "resolved",
                          !.returned = Append(@, [caller |-> c,
                                                  newTitles |-> r.newTitles,
                                                  issued |-> driver.issued[c]])]
    /\ history' = [history EXCEPT !["forward"] = Expanded(@, orch.linkMap)]
    /\ UNCHANGED <<wiki, start, end, requests, response, fetcher>>

\* the handler a chained caller put on explorePromise: it calls explore()
RunExploreAgain ==
    /\ driver.mode = "explorers"
    /\ driver.micro # <<>>
    /\ Head(driver.micro).task = "exploreAgain"
    /\ LET st == callExplore([self |-> tree["forward"],
                              driver |-> [driver EXCEPT !.micro = Tail(@)],
                              requests |-> requests,
                              history |-> history["forward"]],
                             Head(driver.micro).caller)
       IN /\ tree' = [tree EXCEPT !["forward"] = st.self]
          /\ driver' = st.driver
          /\ requests' = st.requests
          /\ history' = [history EXCEPT !["forward"] = st.history]
    /\ UNCHANGED <<wiki, start, end, response, orch, fetcher>>

NextExplorers ==
    \/ \E c \in Callers : CallExplore(c)
    \/ ExplorersRespond
    \/ ExplorersFail
    \/ RunExplorersFetchThen
    \/ RunExploreThen
    \/ RunExploreAgain

SpecExplorers == InitExplorers /\ [][NextExplorers]_vars

(***************************************************************************)
(* Properties                                                              *)
(***************************************************************************)
Solved == orch.result = "solved"

ForwardDepth(t) == tree["forward"].depthMap[t]

BackwardDepth(t) == tree["backward"].depthMap[t]

ReachableFrom(S) == ReachableIn(wiki, S)

ReachingTo(S) == ReachingIn(wiki, S)

\* C1: a path returned by wikigameSolve begins with start, ends with end,
\* and each title of it links to the next one in the wiki
C1_PathFollowsLinks ==
    Solved =>
        /\ Head(orch.path) = start
        /\ Last(orch.path) = end
        /\ \A i \in 1..(Len(orch.path) - 1) :
              <<orch.path[i], orch.path[i + 1]>> \in wiki

C1_Witness ==
    /\ Solved
    /\ ForwardDepth(orch.collision) >= 1
    /\ BackwardDepth(orch.collision) >= 1

\* C2: the returned path is the forward tree's parent chain of the collision
\* reversed, the collision, then the backward tree's parent chain: it has
\* forwardDepth + backwardDepth + 1 titles, the collision at position
\* forwardDepth + 1, each title before it the forward parent of the next
\* and each title after it the backward parent of the one before
C2_PathIsParentChains ==
    Solved =>
        LET c == orch.collision
            f == ForwardDepth(c)
            b == BackwardDepth(c)
        IN /\ Len(orch.path) = f + b + 1
           /\ orch.path[f + 1] = c
           /\ tree["forward"].treeObj[orch.path[1]] = ROOT
           /\ tree["backward"].treeObj[orch.path[f + b + 1]] = ROOT
           /\ \A i \in 1..f :
                 tree["forward"].treeObj[orch.path[i + 1]] = orch.path[i]
           /\ \A i \in (f + 1)..(f + b) :
                 tree["backward"].treeObj[orch.path[i]] = orch.path[i + 1]

\* the shape of Hydrogen, Algae, Marine biology, Penguin: the collision one
\* link from start and two links from end
C2_Witness ==
    /\ Solved
    /\ ForwardDepth(orch.collision) = 1
    /\ BackwardDepth(orch.collision) = 2
    /\ Len(orch.path) = 4

\* the new titles of the last step that the other tree holds too
Colliding ==
    {t \in Range(orch.newArticles) :
        containsPage(tree[Other(orch.exploreTree)], t)}

CollisionDistance(t) ==
    Len(pathToRoot(tree["forward"], t)) + Len(pathToRoot(tree["backward"], t))

\* C3: the collision chosen minimizes the sum of the two path lengths over
\* the titles colliding in the step
C3_CollisionIsMinimal ==
    orch.pc = "solveThen" =>
        \A t \in Colliding :
            CollisionDistance(orch.collision) <= CollisionDistance(t)

\* C5: when a search with start # end fails with DeadEnd there is no path
\* of links from start to end, and the tree that reported it holds every
\* title its root reaches, each of them in a batch that was fully paged
C5_DeadEndMeansNoPath ==
    (orch.result = "DeadEnd" /\ start # end) =>
        LET d == orch.exploreTree
            reached == IF d = "forward" THEN ReachableFrom({start})
                       ELSE ReachingTo({end})
        IN /\ end \notin ReachableFrom({start})
           /\ DOMAIN tree[d].treeObj = reached
           /\ history[d].paged = reached

C5_Witness ==
    /\ orch.result = "DeadEnd"
    /\ start # end
    /\ Cardinality(DOMAIN tree[orch.exploreTree].treeObj) >= 3
    /\ history[orch.exploreTree].resumed

Terminated == orch.pc \in {"done", "failed"}

\* the links the server has still to report for a title, plus one for the
\* response that ends its paging
TitleWork(d, t) ==
    Cardinality(LinksOf(wiki, IF d = "forward" THEN "links" ELSE "linkshere", t))
        + 1

TitlesWork(d, ts) == SumSeq([k \in 1..Len(ts) |-> TitleWork(d, ts[k])])

BatchWork(d, batch) ==
    TitlesWork(d, batch.titlesParam) - Len(batch.titlesParam) + 1
        - (IF batch.continueParam = undefined THEN 0 ELSE batch.continueParam)

BatchesWork(d, batchSeq) ==
    SumSeq([k \in 1..Len(batchSeq) |-> BatchWork(d, batchSeq[k])])

\* the responses a tree can still receive at most
TreeWork(d) ==
    BatchesWork(d, tree[d].linkFetcher.batches)
        + BatchesWork(d, tree[d].linkFetcher.undesirableBatchStack)
        + TitlesWork(d, tree[d].toExplore)
        + SumSeq([t \in 1..NumTitles |->
                    IF t \in DOMAIN tree[d].treeObj THEN 0
                    ELSE TitleWork(d, t)])

\* the position of wikigameSolve within one iteration of algorithm()
StepsLeft ==
    CASE orch.pc = "exploreThen" -> 9
      [] orch.pc = "algorithmThen" -> 8
      [] orch.pc \in {"algorithm", "solveThen"} -> 7
      [] orch.pc = "awaitResponse" -> 6
      [] orch.pc = "fetchThen" -> 5
      [] OTHER -> 0

Remaining == 10 * (TreeWork("forward") + TreeWork("backward")) + StepsLeft

\* a handler is due, or a request is in flight for the server to answer
CanStep ==
    \/ orch.pc \in {"algorithm", "fetchThen", "exploreThen", "algorithmThen",
                    "solveThen"}
    \/ orch.pc = "awaitResponse" /\ requests # <<>>

\* C6: the search terminates: while it has neither returned a path nor
\* failed it has a step to take, and every step strictly decreases the
\* number of steps and responses that can still follow, which is never
\* negative; so it cannot fetch forever
C6_Terminates ==
    [][/\ Terminated' \/ CanStep'
       /\ Remaining' >= 0
       /\ Remaining' < Remaining]_vars

\* a search that ended after it had fetched a parked batch again
C6_Witness ==
    /\ Terminated
    /\ orch.result # "TransportError"
    /\ \E d \in Direction : history[d].resumed

\* the requests in flight and the response not yet applied to the batches
Outstanding == Len(requests) + (IF response # NoResponse THEN 1 ELSE 0)

LinkFetcherOf(direction) ==
    IF driver.mode = "solve" THEN tree[direction].linkFetcher ELSE fetcher

\* C4: at most one request is in flight, whoever calls fetch() and however
\* often, and none is issued before the response to the last one has been
\* applied to the batches; the two trees of a search never have requests
\* in flight together
C4_OneRequestInFlight ==
    /\ Outstanding <= 1
    /\ \A k \in 1..Len(requests) :
          LinkFetcherOf(requests[k].direction).linkPromise = "pending"
    /\ ~(\E j, k \in 1..Len(requests) :
            requests[j].direction # requests[k].direction)

\* the first request was answered, a chained caller has issued the next
\* one and another caller is still chained
C4_Witness ==
    /\ requests # <<>>
    /\ \E a, b, c \in Callers :
          /\ driver.status[a] = "resolved"
          /\ driver.status[b] = "requested"
          /\ driver.status[c] = "waiting"

\* C7: after a request has failed no further request is issued, and a later
\* fetch() or explore() fails too: the search has failed, no handler has
\* touched the tree since the progress callback of the failed step, and
\* progressCallback is never invoked with solved = true
C7_FailureAborts ==
    /\ orch.result = "TransportError" =>
          /\ orch.pc = "failed"
          /\ Outstanding = 0
          /\ orch.solvedCallbacks = 0
          /\ ~orch.callback.solved
          /\ tree["forward"].size = orch.callback.forwardSize
          /\ tree["backward"].size = orch.callback.backwardSize
          /\ tree["forward"].layerSizes = orch.callback.forwardLayers
          /\ tree["backward"].layerSizes = orch.callback.backwardLayers
          /\ Cardinality(DOMAIN tree["forward"].treeObj)
                = orch.callback.forwardSize
          /\ Cardinality(DOMAIN tree["backward"].treeObj)
                = orch.callback.backwardSize
          /\ LET d == orch.exploreTree
             IN /\ history[d].failed
                /\ exploreKind(tree[d]) = "chained"
                /\ tree[d].explorePromise = "rejected"
                /\ fetchKind(tree[d].linkFetcher) = "chained"
                /\ tree[d].linkFetcher.linkPromise = "rejected"
    /\ (driver.mode = "fetch" /\ history["forward"].failed) =>
          /\ Outstanding = 0
          /\ fetcher.linkPromise = "rejected"
          /\ \A c \in Callers : driver.status[c] \notin {"requested", "waiting"}
          /\ (driver.op.name = "fetch"
              /\ driver.op.before.linkPromise = "rejected") =>
                 driver.status[driver.op.caller] = "rejected"
    /\ (driver.mode = "solve" /\ \E d \in Direction : history[d].failed) =>
          orch.result = "TransportError"

\* a caller has called fetch() after a request had failed
C7_Witness ==
    /\ driver.mode = "fetch"
    /\ history["forward"].failed
    /\ driver.op.name = "fetch"
    /\ driver.op.before.linkPromise = "rejected"
    /\ Len(driver.op.before.batches) >= 2

\* the batches addArticles has just created
Added == SubSeq(fetcher.batches, Len(driver.op.before.batches) + 1,
                Len(fetcher.batches))

AfterAddArticles == driver.op.name = "addArticles"

\* C8: every batch addArticles creates has at most 50 titles and a titles
\* parameter of fewer than 1500 percent-encoded characters
C8_BatchesWithinLimits ==
    AfterAddArticles =>
        \A k \in 1..Len(Added) :
            /\ Len(Added[k].titlesParam) <= MAX_BATCH_TITLES
            /\ EncodedParamLength(Added[k].titlesParam) < MAX_PARAM_LENGTH

\* C9: the titles of the new batches, in creation order, are the input
\* sequence; the new batches follow the old ones in the rotation and have
\* no cursor; the old active batches with their cursors, the undesirable
\* stack and the demotion candidate are as before
C9_AddArticlesPartitions ==
    AfterAddArticles =>
        /\ Len(fetcher.batches) >= Len(driver.op.before.batches)
        /\ Flatten([k \in 1..Len(Added) |-> Added[k].titlesParam])
              = driver.op.articles
        /\ \A k \in 1..Len(Added) :
              /\ Added[k].continueParam = undefined
              /\ Added[k].titlesParam # <<>>
        /\ SubSeq(fetcher.batches, 1, Len(driver.op.before.batches))
              = driver.op.before.batches
        /\ fetcher.undesirableBatchStack
              = driver.op.before.undesirableBatchStack
        /\ fetcher.lastBatchIndex = driver.op.before.lastBatchIndex

\* several batches were added to a LinkFetcher that had an active batch
\* with a cursor, a demotion candidate and a parked batch
C9_Witness ==
    /\ AfterAddArticles
    /\ Len(Added) >= 3
    /\ driver.op.before.lastBatchIndex # undefined
    /\ \E k \in 1..Len(driver.op.before.batches) :
          driver.op.before.batches[k].continueParam # undefined

\* the titles parameter never reaches the limit while articles is packed
\* in groups of 50
Chunk(articles, k) ==
    SubSeq(articles, MAX_BATCH_TITLES * (k - 1) + 1,
           Min(MAX_BATCH_TITLES * k, Len(articles)))

ChunkCount(articles) ==
    (Len(articles) + MAX_BATCH_TITLES - 1) \div MAX_BATCH_TITLES

LimitNotReached(articles) ==
    \A k \in 1..ChunkCount(articles) :
        EncodedParamLength(Chunk(articles, k)) < MAX_PARAM_LENGTH

\* C10: when the length limit is not reached, n titles give ceil(n / 50)
\* batches, each of 50 titles but the last, which has the rest; no title
\* gives no batch
C10_GreedyPacking ==
    (AfterAddArticles /\ LimitNotReached(driver.op.articles)) =>
        LET n == Len(driver.op.articles)
        IN /\ Len(Added) = ChunkCount(driver.op.articles)
           /\ \A k \in 1..Len(Added) :
                 Len(Added[k].titlesParam) =
                    IF k < Len(Added) THEN MAX_BATCH_TITLES
                    ELSE n - MAX_BATCH_TITLES * (k - 1)
           /\ n = 0 => Added = <<>>

\* 120 short titles have given batches of 50, 50 and 20 titles
C10_Witness ==
    /\ AfterAddArticles
    /\ Len(driver.op.articles) = 120
    /\ LimitNotReached(driver.op.articles)
    /\ Len(Added) = 3
    /\ Len(Added[1].titlesParam) = 50
    /\ Len(Added[2].titlesParam) = 50
    /\ Len(Added[3].titlesParam) = 20

\* the cursor the server returned last for the batch, undefined if it has
\* returned none
LastCursor(direction, batch) ==
    IF batch.id \in DOMAIN history[direction].cursors
    THEN history[direction].cursors[batch.id]
    ELSE undefined

\* a LinkFetcher used on its own is a forward one
DirectionsInUse == IF driver.mode = "solve" THEN Direction ELSE {"forward"}

StoredBatches(direction) ==
    LinkFetcherOf(direction).batches
        \o LinkFetcherOf(direction).undesirableBatchStack

\* C11: a request for a batch carries the cursor the server returned last
\* for that batch, and no cursor if it has returned none; every batch kept
\* in the rotation or on the undesirable stack holds that cursor for its
\* next request, whatever was called in between
C11_CursorReuse ==
    /\ \A k \in 1..Len(requests) :
          requests[k].continueParam
              = LastCursor(requests[k].direction, requests[k].currentBatch)
    /\ \A d \in DirectionsInUse :
          \A k \in 1..Len(StoredBatches(d)) :
              StoredBatches(d)[k].continueParam
                  = LastCursor(d, StoredBatches(d)[k])

\* a batch got a cursor and was demoted to the undesirable stack; the last
\* call of fetch() took it back into the rotation and requests it with the
\* cursor it had got
C11_Witness ==
    /\ driver.mode = "fetch"
    /\ driver.op.name = "fetch"
    /\ driver.op.before.undesirableBatchStack # <<>>
    /\ fetcher.undesirableBatchStack = <<>>
    /\ Len(requests) = 1
    /\ requests[1].continueParam # undefined
    /\ requests[1].continueParam
          = LastCursor("forward", requests[1].currentBatch)

\* the titles a tree holds
Inserted(d) == DOMAIN tree[d].treeObj

SizeIsConsistent(self) ==
    /\ self.size = SumSeq(self.layerSizes)
    /\ self.size = Cardinality(DOMAIN self.treeObj)

\* C12: the size of a tree is the sum of its layerSizes and the number of
\* distinct titles in its parent map, before and after every step, whatever
\* link maps the LinkSource returns; and no step decreases it
C12_SizeCountsTitles ==
    [][\A d \in Direction :
          /\ SizeIsConsistent(tree[d])
          /\ SizeIsConsistent(tree'[d])
          /\ tree'[d].size >= tree[d].size]_vars

\* the root has depth 0 and no parent, every other title has its parent in
\* the tree, one layer above it
WellFormed(self) ==
    /\ DOMAIN self.depthMap = DOMAIN self.treeObj
    /\ \A t \in DOMAIN self.treeObj :
          IF self.treeObj[t] = ROOT THEN self.depthMap[t] = 0
          ELSE /\ self.treeObj[t] \in DOMAIN self.treeObj
               /\ self.depthMap[t] = self.depthMap[self.treeObj[t]] + 1
    /\ Cardinality({t \in DOMAIN self.treeObj : self.treeObj[t] = ROOT}) = 1

\* C13: a title in a tree stays in it with the parent and the depth it
\* got, step after step, also when a response lists it again; the root has
\* depth 0 and every other title is one layer below its parent
C13_MembershipWriteOnce ==
    [][\A d \in Direction :
          /\ WellFormed(tree[d])
          /\ WellFormed(tree'[d])
          /\ \A t \in Inserted(d) :
                /\ containsPage(tree'[d], t)
                /\ tree'[d].treeObj[t] = tree[d].treeObj[t]
                /\ tree'[d].depthMap[t] = tree[d].depthMap[t]]_vars

\* the children the last link map lists for parents other than their own
Relisted ==
    {t \in Inserted("forward") :
        \E k \in 1..Len(orch.linkMap) :
            /\ t \in Range(orch.linkMap[k].links)
            /\ orch.linkMap[k].title # tree["forward"].treeObj[t]}

\* the last step was given a link map that lists the root and a title two
\* layers down as children of another title; neither is among its new titles
C13_Witness ==
    /\ driver.mode = "tree"
    /\ orch.pc = "idle"
    /\ \E t \in Relisted : tree["forward"].treeObj[t] = ROOT
    /\ \E t \in Relisted :
          /\ tree["forward"].depthMap[t] >= 2
          /\ t \notin Range(orch.newArticles)

\* following the parent pointers from title reaches the root within fuel
\* steps
RECURSIVE ReachesRoot(_, _, _)
ReachesRoot(self, title, fuel) ==
    IF self.treeObj[title] = ROOT THEN TRUE
    ELSE /\ fuel > 0
         /\ self.treeObj[title] \in DOMAIN self.treeObj
         /\ ReachesRoot(self, self.treeObj[title], fuel - 1)

IsParentChain(self, title, path) ==
    /\ Len(path) = self.depthMap[title]
    /\ self.treeObj[title] = ROOT <=> path = <<>>
    /\ path # <<>> =>
          /\ path[1] = self.treeObj[title]
          /\ \A i \in 1..(Len(path) - 1) : path[i + 1] = self.treeObj[path[i]]
          /\ self.treeObj[Last(path)] = ROOT
    /\ title \notin Range(path)
    /\ Cardinality(Range(path)) = Len(path)

\* C14: in every tree the parent pointers lead from every title to the
\* root without a cycle; pathToRoot of the root is empty, and pathToRoot of
\* a title is its parent, the parent of that, and so on up to the root,
\* depth[title] titles in all
C14_PathToRootIsParentChain ==
    \A d \in Direction :
        \A t \in Inserted(d) :
            /\ ReachesRoot(tree[d], t, Cardinality(Inserted(d)))
            /\ IsParentChain(tree[d], t, pathToRoot(tree[d], t))

\* a tree explored on its own holds a title three layers down, inserted by
\* a step that got a list of ten titles
C14_Witness ==
    /\ driver.mode = "tree"
    /\ orch.pc = "idle"
    /\ Len(orch.newArticles) >= MIN_NEW_TITLES
    /\ \E t \in Range(orch.newArticles) :
          /\ tree["forward"].depthMap[t] = 3
          /\ Len(pathToRoot(tree["forward"], t)) = 3
          /\ Last(pathToRoot(tree["forward"], t)) = 1

\* the titles the orchestrator is about to call pathToRoot on: in the
\* handler of explore() the new titles the other tree holds, in the last
\* handler the collision
PathToRootArguments ==
    IF orch.pc = "algorithmThen" THEN Colliding
    ELSE IF orch.pc \in {"solveThen", "done"} THEN {orch.collision}
    ELSE {}

\* C15: pathToRoot throws for exactly the titles the tree does not hold, and
\* a call that throws leaves the tree as it was; wikigameSolve never fails
\* with that error: it calls pathToRoot on titles both trees hold
C15_InvalidTitleOnlyWhenAbsent ==
    /\ \A d \in Direction :
          \A t \in Titles :
              LET call == pathToRootCall(tree[d], t)
              IN /\ call.error = "InvalidTitle" <=> ~containsPage(tree[d], t)
                 /\ call.error = "none" <=> t \in Inserted(d)
                 /\ call.self = tree[d]
    /\ orch.result # "InvalidTitle"
    /\ \A t \in PathToRootArguments :
          /\ t \in Inserted("forward")
          /\ t \in Inserted("backward")

\* the search has called pathToRoot on the collision, away from both roots,
\* while each tree lacks a title on which the call would throw
C15_Witness ==
    /\ Solved
    /\ ForwardDepth(orch.collision) + BackwardDepth(orch.collision) >= 2
    /\ \E t \in Titles :
          pathToRootCall(tree["forward"], t).error = "InvalidTitle"
    /\ \E t \in Titles :
          pathToRootCall(tree["backward"], t).error = "InvalidTitle"

\* the handler of explore() is due
ExploreHandlerDue == orch.pc \in {"exploreThen", "treeExploreThen"}

\* the demotion candidate of a LinkFetcher, as a sequence of at most one
\* batch, and the rotation without it
Candidate(lf) ==
    IF lf.lastBatchIndex # undefined /\ lf.lastBatchIndex < Len(lf.batches)
    THEN <<lf.batches[lf.lastBatchIndex + 1]>>
    ELSE <<>>

RotationRest(lf) ==
    IF Candidate(lf) = <<>> THEN lf.batches
    ELSE SubSeq(lf.batches, 1, lf.lastBatchIndex)
            \o SubSeq(lf.batches, lf.lastBatchIndex + 2, Len(lf.batches))

LowYieldRun(d) == tree[d].consecutiveUndesirableBatches

ExploreCalled ==
    \/ orch.pc = "algorithm"
    \/ driver.mode = "tree" /\ orch.pc = "idle"

ExploredNext ==
    IF driver.mode = "tree" THEN "forward"
    ELSE chooseTree(tree["forward"], tree["backward"])

NothingLeft(self) ==
    /\ self.linkFetcher.batches = <<>>
    /\ self.linkFetcher.undesirableBatchStack = <<>>
    /\ self.toExplore = <<>>

\* C17: a call of explore() fails with DeadEnd exactly when the rotation,
\* the undesirable stack and the titles awaiting expansion of its tree are
\* all empty; that call sends no request and changes no tree, and it ends
\* wikigameSolve in failure; any other call sends one request
C17_DeadEndWhenNothingLeft ==
    [][ExploreCalled =>
          /\ orch'.result = "DeadEnd" <=> NothingLeft(tree[ExploredNext])
          /\ orch'.result = "DeadEnd" =>
                /\ requests' = <<>>
                /\ tree' = tree
                /\ driver.mode = "solve" => orch'.pc = "failed"
          /\ orch'.result # "DeadEnd" =>
                /\ Len(requests') = 1
                /\ requests'[1].direction = ExploredNext]_vars

\* the backward tree of a search reported the dead end, after both trees
\* had grown
C17_Witness ==
    /\ driver.mode = "solve"
    /\ orch.result = "DeadEnd"
    /\ orch.pc = "failed"
    /\ orch.exploreTree = "backward"
    /\ NothingLeft(tree["backward"])
    /\ ~NothingLeft(tree["forward"])
    /\ Cardinality(Inserted("backward")) >= 2
    /\ Cardinality(Inserted("forward")) >= 2

\* what an invocation of progressCallback is given now
Report(solved) ==
    [forwardSize |-> tree["forward"].size,
     forwardLayers |-> tree["forward"].layerSizes,
     backwardSize |-> tree["backward"].size,
     backwardLayers |-> tree["backward"].layerSizes,
     solved |-> solved]

\* C18: the handler that follows a completed step of explore() leads to one
\* invocation of progressCallback: with solved = true when the step has
\* found a collision, after which nothing more happens, and with
\* solved = false otherwise, at the start of the next iteration; every
\* invocation is given the sizes and layerSizes the two trees have then, and
\* no other step invokes it
C18_ProgressAfterEveryStep ==
    [][/\ orch.pc = "algorithmThen" =>
             /\ orch'.pc \in {"algorithm", "solveThen"}
             /\ orch'.pc = "solveThen" <=> Colliding # {}
       /\ orch.pc = "algorithm" =>
             /\ orch'.callback = Report(FALSE)
             /\ orch'.solvedCallbacks = 0
       /\ orch.pc = "solveThen" =>
             /\ orch'.callback = Report(TRUE)
             /\ orch.solvedCallbacks = 0
             /\ orch'.solvedCallbacks = 1
             /\ orch'.pc = "done"
       /\ orch.pc \notin {"algorithm", "solveThen"} =>
             /\ orch'.callback = orch.callback
             /\ orch'.solvedCallbacks = orch.solvedCallbacks
       /\ orch.pc # "done"]_vars

\* a search has ended after several steps: the last invocation had
\* solved = true and the sizes of the grown trees
C18_Witness ==
    /\ orch.pc = "done"
    /\ orch.callback = Report(TRUE)
    /\ orch.solvedCallbacks = 1
    /\ tree["forward"].size >= 2
    /\ tree["backward"].size >= 2
    /\ Len(orch.callback.forwardLayers) >= 2
    /\ Len(orch.callback.backwardLayers) >= 2

FringeCount(d) == Cardinality(tree[d].fringe)

SmallerFringe ==
    IF FringeCount("forward") <= FringeCount("backward")
    THEN "forward" ELSE "backward"

\* C19: algorithm() explores the tree whose fringe holds fewer titles, the
\* forward tree when both hold as many: the request it sends, if any, is
\* that tree's; from there to the end of the step's handlers the other
\* tree is not changed
C19_SmallerFringeExplored ==
    [][/\ orch.pc = "algorithm" =>
             /\ orch'.exploreTree = SmallerFringe
             /\ \A k \in 1..Len(requests') :
                   requests'[k].direction = SmallerFringe
             /\ tree'[Other(SmallerFringe)] = tree[Other(SmallerFringe)]
       /\ orch.pc \in {"awaitResponse", "fetchThen", "exploreThen"} =>
             /\ orch'.exploreTree = orch.exploreTree
             /\ tree'[Other(orch.exploreTree)] = tree[Other(orch.exploreTree)]
       /\ orch.pc \in {"algorithmThen", "solveThen"} => tree' = tree]_vars

\* the forward tree has grown a fringe of two titles or more, and the
\* backward tree, whose fringe is smaller, is explored
C19_Witness ==
    /\ orch.pc = "awaitResponse"
    /\ orch.exploreTree = "backward"
    /\ FringeCount("forward") >= 2
    /\ FringeCount("backward") < FringeCount("forward")
    /\ Len(requests) = 1
    /\ requests[1].direction = "backward"

\* the child list a link map gives for a title that has an entry in it
LinksIn(linkMap, title) ==
    LET k == CHOOSE k \in 1..Len(linkMap) : linkMap[k].title = title
    IN linkMap[k].links

\* C20: when the response to a request has no cursor, the link map fetch()
\* returns has an entry for every title of the requested batch, the first
\* one included: the child list of the response for a title the response
\* lists, the empty list for a title it omits
C20_LinkMapCoversBatch ==
    [][(orch.pc = "fetchThen" /\ ~Truthy(response.continueParam)) =>
          \A t \in Range(response.request.titlesParam) :
              /\ InLinkMap(orch'.linkMap, t)
              /\ LinksIn(orch'.linkMap, t) =
                    IF InLinkMap(response.linkMap, t)
                    THEN LinksIn(response.linkMap, t) ELSE <<>>]_vars

Fetched == history["forward"].fetched

\* the batches that were in the rotation at the i-th and at the j-th
\* request and did not leave it in between
StayedThroughout(i, j) ==
    {c \in Fetched[i].rotation \cap Fetched[j].rotation :
        ~(\E n \in i..(j - 1) : <<c, n>> \in history["forward"].left)}

\* the i-th and the j-th request are consecutive requests of one batch
ConsecutiveFetches(i, j) ==
    /\ i < j
    /\ Fetched[i].id = Fetched[j].id
    /\ \A k \in (i + 1)..(j - 1) : Fetched[k].id # Fetched[i].id

\* C21: between two consecutive requests of one batch, every other batch
\* that stayed in the rotation all the while is requested exactly once,
\* also when batches are paged out or demoted in between
C21_RoundRobin ==
    \A i, j \in 1..Len(Fetched) :
        ConsecutiveFetches(i, j) =>
            \A c \in StayedThroughout(i, j) \ {Fetched[i].id} :
                Cardinality({k \in (i + 1)..(j - 1) : Fetched[k].id = c}) = 1


\* the batches of batchSeq other than the batch id, in order
OtherBatches(batchSeq, id) == SelectSeq(batchSeq, LAMBDA b : b.id # id)

\* the batches that leave the rotation in a step
Leaving == BatchIds(fetcher.batches) \ BatchIds(fetcher'.batches)

\* the step is the handler of fetch() running on a response
FetchHandlerRuns == orch.pc = "rotateFetchThen" /\ orch'.pc = "idle"

\* the step is a call of markLastBatchUndesirable or markAllBatchesUndesirable
Demotes == driver'.op.name \in {"markLast", "markAll"} /\ driver'.calls # driver.calls

\* C22: a batch leaves the rotation only when it is paged out or demoted.
\* The handler of fetch() on a response without cursor removes exactly the
\* requested batch and clears the demotion candidate; on a response with a
\* cursor the requested batch stays, holds the new cursor and is the
\* demotion candidate; either way the other active batches and the
\* undesirable stack are unchanged
C22_LeavesOnlyPagedOrDemoted ==
    [][/\ Leaving # {} =>
            \/ FetchHandlerRuns /\ ~Truthy(response.continueParam)
            \/ /\ Demotes
               /\ Leaving \subseteq BatchIds(fetcher'.undesirableBatchStack)
       /\ FetchHandlerRuns =>
            LET id == response.request.currentBatch.id
            IN /\ id \in BatchIds(fetcher.batches)
               /\ fetcher'.undesirableBatchStack =
                      fetcher.undesirableBatchStack
               /\ OtherBatches(fetcher'.batches, id) =
                      OtherBatches(fetcher.batches, id)
               /\ IF Truthy(response.continueParam)
                  THEN /\ Leaving = {}
                       /\ Len(fetcher'.batches) = Len(fetcher.batches)
                       /\ fetcher'.lastBatchIndex \in
                              0..(Len(fetcher'.batches) - 1)
                       /\ fetcher'.batches[fetcher'.lastBatchIndex + 1] =
                              [response.request.currentBatch EXCEPT
                                 !.continueParam = response.continueParam]
                  ELSE /\ Leaving = {id}
                       /\ Len(fetcher'.batches) = Len(fetcher.batches) - 1
                       /\ fetcher'.lastBatchIndex = undefined
      ]_vars

\* a batch was paged out of a rotation of three while another is parked
C22_Witness ==
    /\ driver.mode = "rotate"
    /\ driver.op.name = "fetchThen"
    /\ Len(driver.op.before.batches) >= 3
    /\ Len(fetcher.batches) = Len(driver.op.before.batches) - 1
    /\ fetcher.undesirableBatchStack # <<>>
    /\ fetcher.lastBatchIndex = undefined


\* the request answered last, while no request is outstanding
LastAnswered ==
    IF history["forward"].failed THEN Fetched[Len(Fetched) - 1]
    ELSE Last(Fetched)

\* the state is the one a call of name leaves, made on a LinkFetcher fetched
\* by one caller
JustCalled(name) == driver.mode = "rotate" /\ driver.op.name = name

\* C23: markLastBatchUndesirable moves the demotion candidate, the batch
\* fetched last with the cursor stored for it, from the rotation to the top
\* of the undesirable stack and clears the candidate; without a candidate it
\* changes nothing; a second call right after changes nothing
C23_MarkLastBatchUndesirable ==
    JustCalled("markLast") =>
        LET before == driver.op.before
            k == before.lastBatchIndex + 1
        IN /\ IF before.lastBatchIndex = undefined
              THEN fetcher = before
              ELSE /\ k \in 1..Len(before.batches)
                   /\ before.batches[k].id = LastAnswered.id
                   /\ before.batches[k].continueParam =
                          history["forward"].cursors[LastAnswered.id]
                   /\ fetcher.undesirableBatchStack =
                          Append(before.undesirableBatchStack,
                                 before.batches[k])
                   /\ fetcher.batches =
                          OtherBatches(before.batches, before.batches[k].id)
                   /\ Len(fetcher.batches) = Len(before.batches) - 1
                   /\ fetcher.lastBatchIndex = undefined
                   /\ fetcher = [before EXCEPT
                                   !.batches = fetcher.batches,
                                   !.undesirableBatchStack =
                                       fetcher.undesirableBatchStack,
                                   !.lastBatchIndex = undefined]
           /\ markLastBatchUndesirable(fetcher) = fetcher

\* the call demoted the middle batch of a rotation onto a stack that
\* already held a batch
C23_Witness ==
    /\ JustCalled("markLast")
    /\ driver.op.before.lastBatchIndex \in 1..(Len(driver.op.before.batches) - 2)
    /\ Len(fetcher.undesirableBatchStack) = 2
    /\ Len(fetcher.batches) >= 2


\* the batches a LinkFetcher holds, active ones first
HeldBatches(self) == self.batches \o self.undesirableBatchStack

\* how many times batch b is held
TimesHeld(self, b) ==
    Cardinality({k \in 1..Len(HeldBatches(self)) : HeldBatches(self)[k] = b})

\* C24: markAllBatchesUndesirable leaves the rotation empty, the stack equal
\* to the previous stack followed by the previous rotation in order and no
\* demotion candidate; every batch is held as often as before, with its
\* cursor; complete() holds exactly when no batch is held at all
C24_MarkAllBatchesUndesirable ==
    /\ JustCalled("markAll") =>
          LET before == driver.op.before
          IN /\ fetcher.batches = <<>>
             /\ noDesirableBatches(fetcher)
             /\ fetcher.undesirableBatchStack =
                    before.undesirableBatchStack \o before.batches
             /\ fetcher.lastBatchIndex = undefined
             /\ \A b \in Range(HeldBatches(before)) \cup
                         Range(HeldBatches(fetcher)) :
                    TimesHeld(fetcher, b) = TimesHeld(before, b)
             /\ complete(fetcher) <=> complete(before)
    /\ driver.mode = "rotate" =>
          (complete(fetcher) <=> Range(HeldBatches(fetcher)) = {})

\* the call parked a rotation of two or more batches, one of them with a
\* cursor, on a stack that already held a batch
C24_Witness ==
    /\ JustCalled("markAll")
    /\ Len(driver.op.before.batches) >= 2
    /\ driver.op.before.undesirableBatchStack # <<>>
    /\ \E k \in 1..Len(driver.op.before.batches) :
          driver.op.before.batches[k].continueParam # undefined
    /\ ~complete(fetcher)


\* the batches that come back from the undesirable stack of the d tree into
\* its rotation in a step
Returning(d) ==
    BatchIds(tree[d].linkFetcher.undesirableBatchStack)
        \cap BatchIds(tree'[d].linkFetcher.batches)

\* the step sends a request for a batch of the d tree that is parked
RequestsParked(d) ==
    /\ Len(requests') > Len(requests)
    /\ Last(requests').direction = d
    /\ Last(requests').currentBatch.id \in
           BatchIds(tree[d].linkFetcher.undesirableBatchStack)

\* C25: a parked batch comes back into the rotation, and is requested
\* again, only in a call of explore() that finds the rotation empty and no
\* title awaiting expansion, so that diversify() makes no batch; it is the
\* batch parked last; when diversify() does make batches the request is for
\* one of them and the stack is left alone
C25_ParkedOnlyByDiversification ==
    [][\A d \in Direction :
         LET lf == tree[d].linkFetcher
             called == ExploreCalled /\ ExploredNext = d
         IN /\ (Returning(d) # {} \/ RequestsParked(d)) =>
                  /\ called
                  /\ noDesirableBatches(lf)
                  /\ tree[d].toExplore = <<>>
                  /\ Returning(d) = {Last(lf.undesirableBatchStack).id}
                  /\ tree'[d].linkFetcher.undesirableBatchStack =
                         Front(lf.undesirableBatchStack)
                  /\ tree'[d].linkFetcher.batches =
                         <<Last(lf.undesirableBatchStack)>>
                  /\ Last(requests').currentBatch =
                         Last(lf.undesirableBatchStack)
                  /\ Last(requests').continueParam =
                         Last(lf.undesirableBatchStack).continueParam
            /\ (called /\ noDesirableBatches(lf) /\ tree[d].toExplore # <<>>) =>
                  /\ Len(requests') > Len(requests)
                  /\ Last(requests').currentBatch.id > lf.created
                  /\ tree'[d].linkFetcher.undesirableBatchStack =
                         lf.undesirableBatchStack]_vars

\* the last of two or more parked batches has just been requested again
C25_Witness ==
    /\ \E d \in Direction :
          /\ tree[d].linkFetcher.undesirableBatchStack # <<>>
          /\ Len(tree[d].linkFetcher.batches) = 1
          /\ requests # <<>>
          /\ Last(requests).direction = d
          /\ Last(requests).currentBatch = tree[d].linkFetcher.batches[1]
          /\ Last(requests).continueParam # undefined
          /\ tree[d].linkFetcher.batches[1].id <
                 Last(tree[d].linkFetcher.undesirableBatchStack).id
          /\ tree[d].toExplore = <<>>


\* a tree is in use: wikigameSolve runs or a tree is explored on its own
TreesInUse == driver.mode \in {"solve", "tree"}

\* the inserted titles of the d tree not yet passed to addArticles
NotYetBatched(d) == Inserted(d) \ history[d].passed

\* the inserted titles of the d tree that no processed link map had as a key
NotYetExpanded(d) == Inserted(d) \ history[d].expanded

\* C26 as stated: the fringe is exactly the set of inserted titles not yet
\* passed to addArticles
C26_FringeIsNotYetBatched ==
    TreesInUse => \A d \in Direction : tree[d].fringe = NotYetBatched(d)

\* C26, amended: the fringe is exactly the set of inserted titles that no
\* link map processed by explore() has had as a key; the inserted titles
\* not yet passed to addArticles are the queued ones and all belong to the
\* fringe
C26_FringeIsNotYetExpanded ==
    TreesInUse =>
        \A d \in Direction :
            /\ tree[d].fringe = NotYetExpanded(d)
            /\ NotYetBatched(d) = Range(tree[d].toExplore)
            /\ NotYetBatched(d) \subseteq tree[d].fringe

\* a tree whose fringe holds a title already passed to addArticles next to
\* a queued one, while another title has left the fringe
C26_Witness ==
    /\ TreesInUse
    /\ \E d \in Direction :
          /\ (tree[d].fringe \cap history[d].passed) \ history[d].expanded # {}
          /\ history[d].expanded \cap Inserted(d) # {}
          /\ NotYetBatched(d) # {}
          /\ Cardinality(history[d].passed) >= 2


\* the handler of explore() has processed every response received so far
ResponsesProcessed ==
    orch.pc \notin {"fetchThen", "exploreThen", "treeFetchThen",
                    "treeExploreThen"}

\* C27: once the response that pages out a batch has been processed by
\* explore(), no title of that batch is in the fringe, with or without
\* links of its own
C27_PagedTitlesLeaveFringe ==
    (TreesInUse /\ ResponsesProcessed) =>
        \A d \in Direction : history[d].paged \cap tree[d].fringe = {}


\* the titles of the batches a LinkFetcher holds after a step that it did
\* not hold before, in batch order
TitlesBatched(d) ==
    LET made == SelectSeq(tree'[d].linkFetcher.batches,
                          LAMBDA b : b.id > tree[d].linkFetcher.created)
    IN Flatten([k \in 1..Len(made) |-> made[k].titlesParam])

\* how many times title t is in the queue
TimesQueued(toExplore, t) ==
    Cardinality({k \in 1..Len(toExplore) : toExplore[k] = t})

\* C28: batches are made of queued titles only in a call of explore() that
\* finds the rotation empty; such a call passes the whole queue to
\* addArticles, in order, and empties it; the handler of explore() queues
\* each title it inserts exactly once, behind the titles queued before; a
\* tree reports DeadEnd only when every inserted title has been in a batch
C28_DiversifyPassesQueue ==
    [][\A d \in Direction :
         LET self == tree[d]
             called == ExploreCalled /\ ExploredNext = d
             handled == /\ ExploreHandlerDue
                        /\ d = (IF driver.mode = "tree" THEN "forward"
                                ELSE orch.exploreTree)
         IN /\ tree'[d].linkFetcher.created # self.linkFetcher.created =>
                  called /\ noDesirableBatches(self.linkFetcher)
            /\ (called /\ noDesirableBatches(self.linkFetcher)) =>
                  /\ TitlesBatched(d) = self.toExplore
                  /\ tree'[d].toExplore = <<>>
            /\ ~(called /\ noDesirableBatches(self.linkFetcher)) =>
                  /\ Len(tree'[d].toExplore) >= Len(self.toExplore)
                  /\ SubSeq(tree'[d].toExplore, 1, Len(self.toExplore)) =
                         self.toExplore
            /\ tree'[d].toExplore # self.toExplore => (called \/ handled)
            /\ handled =>
                  \A t \in DOMAIN tree'[d].treeObj :
                     TimesQueued(tree'[d].toExplore, t) =
                        TimesQueued(self.toExplore, t)
                          + (IF t \in DOMAIN self.treeObj THEN 0 ELSE 1)
            /\ (called /\ orch'.result = "DeadEnd") =>
                  DOMAIN tree'[d].treeObj \subseteq history'[d].passed]_vars


\* the calls of explore() fulfilled so far, in order
Returned == driver.returned

\* a handler of the response received last is still due
HandlersDue ==
    \E k \in 1..Len(driver.micro) :
        driver.micro[k].task \in {"fetchThen", "exploreThen"}

\* the steps of explore() sent a request for and not yet finished
StepsOutstanding == IF requests # <<>> \/ HandlersDue THEN 1 ELSE 0

\* C29: the calls of explore() on one tree take their turns: while a request
\* is in flight the response before it has been applied to the tree in
\* full, at most one request is in flight, every call fulfilled has sent
\* exactly one request and every request sent belongs to one call, and no
\* title is among the newTitles of two calls
C29_ExploreSerialized ==
    driver.mode = "explorers" =>
        /\ Outstanding <= 1
        /\ requests # <<>> =>
              /\ ~HandlersDue
              /\ response = NoResponse
              /\ orch.linkMap = <<>>
              /\ tree["forward"].explorePromise = "pending"
        /\ \A k \in 1..Len(Returned) : Returned[k].issued = 1
        /\ Len(Fetched) = Len(Returned) + StepsOutstanding
                            + (IF history["forward"].failed THEN 1 ELSE 0)
        /\ \A i, j \in 1..Len(Returned) :
              i # j => Range(Returned[i].newTitles)
                          \cap Range(Returned[j].newTitles) = {}
        /\ \A k \in 1..Len(Returned) :
              Range(Returned[k].newTitles) \subseteq Inserted("forward") \ {1}

\* two callers called explore() while the step of a first one was
\* outstanding; that step has been applied and has returned titles, the
\* second caller's request is in flight and the third caller's handler is
\* still due
C29_Witness ==
    /\ driver.mode = "explorers"
    /\ Len(Returned) = 1
    /\ Returned[1].newTitles # <<>>
    /\ requests # <<>>
    /\ driver.owner # Returned[1].caller
    /\ Len(driver.micro) = 1
    /\ driver.micro[1].task = "exploreAgain"
    /\ driver.micro[1].caller \notin {driver.owner, Returned[1].caller}


\* the titles both trees hold
SharedTitles == Inserted("forward") \cap Inserted("backward")

\* C30: when start and end differ, the two trees share no title at the
\* start of an iteration of the loop nor while its step is under way; a
\* shared title is one of the titles the step just completed has inserted,
\* and that step ends the loop with one of the shared titles as collision
C30_NoCollisionMissed ==
    (driver.mode = "solve" /\ start # end) =>
        /\ orch.pc \notin {"algorithmThen", "solveThen", "done"} =>
              SharedTitles = {}
        /\ orch.pc \in {"algorithmThen", "solveThen", "done"} =>
              /\ SharedTitles \subseteq Range(orch.newArticles)
              /\ SharedTitles \subseteq Inserted(orch.exploreTree)
        /\ orch.pc \in {"solveThen", "done"} =>
              /\ orch.collision \in SharedTitles
              /\ orch.result \in {"running", "solved"}

\* a search ended by a step that inserted several titles, of which the
\* first was not in the other tree and a later one was
C30_Witness ==
    /\ driver.mode = "solve"
    /\ start # end
    /\ orch.pc = "done"
    /\ Len(orch.newArticles) >= 2
    /\ orch.newArticles[1] \notin SharedTitles
    /\ orch.collision \in SharedTitles
    /\ orch.result = "solved"


\* C31: the cached fringeSize of a tree is the number of titles in its
\* fringe, and every title of the fringe has a parent in treeObj
C31_FringeSizeIsCardinality ==
    TreesInUse =>
        \A d \in Direction :
            /\ tree[d].fringeSize = Cardinality(tree[d].fringe)
            /\ tree[d].fringe \subseteq DOMAIN tree[d].treeObj


\* C32: when start and end differ, no title is in the returned path twice
C32_PathHasNoRepeat ==
    (driver.mode = "solve" /\ Solved /\ start # end) =>
        \A i, j \in 1..Len(orch.path) :
            orch.path[i] = orch.path[j] => i = j

\* a path of three titles was returned while the two trees shared a second
\* title next to the collision
C32_Witness ==
    /\ driver.mode = "solve"
    /\ Solved
    /\ start # end
    /\ Len(orch.path) = 3
    /\ Cardinality(SharedTitles) >= 2


\* the titles of a batch
BatchTitles(batch) == Range(batch.titlesParam)

\* C33: within one tree no title is in two batches, and no batch that holds
\* a title of a batch paged out before is kept or requested: the links of a
\* title are requested through one batch only
C33_OneBatchPerTitle ==
    \A d \in Direction :
        LET held == HeldBatches(tree[d].linkFetcher)
        IN /\ \A i, j \in 1..Len(held) :
                 i # j => BatchTitles(held[i]) \cap BatchTitles(held[j]) = {}
           /\ \A i \in 1..Len(held) :
                 BatchTitles(held[i]) \cap history[d].paged = {}
           /\ \A k \in 1..Len(requests) :
                 requests[k].direction = d =>
                    Range(requests[k].titlesParam) \cap history[d].paged = {}


\* lastBatchIndex of lf, when set, is the index of an active batch that
\* holds the cursor returned last for it (cursors by batch id)
CandidateHasCursor(lf, cursors) ==
    lf.lastBatchIndex # undefined =>
        /\ lf.lastBatchIndex \in 0..(Len(lf.batches) - 1)
        /\ LET batch == lf.batches[lf.lastBatchIndex + 1]
           IN /\ Truthy(batch.continueParam)
              /\ batch.id \in DOMAIN cursors
              /\ batch.continueParam = cursors[batch.id]

\* the step is the handler of fetch() running on a response for the d tree
ResponseArrives(d) ==
    /\ response # NoResponse
    /\ response' = NoResponse
    /\ response.request.direction = d

\* C34: in a LinkFetcher driven by explore(), lastBatchIndex, when set, is
\* the index of an active batch with a stored cursor; it is set by the
\* handler of fetch() to the batch just answered and designates that batch
\* until it is cleared; when the handler runs, batchIndex is the index of
\* the batch that was requested
C34_CandidateIsLastFetched ==
    [][\A d \in Direction :
         LET lf == tree[d].linkFetcher
             after == tree'[d].linkFetcher
         IN /\ CandidateHasCursor(lf, history[d].cursors)
            /\ CandidateHasCursor(after, history'[d].cursors)
            /\ ResponseArrives(d) =>
                  /\ lf.batchIndex \in 0..(Len(lf.batches) - 1)
                  /\ lf.batches[lf.batchIndex + 1] =
                         response.request.currentBatch
                  /\ after.lastBatchIndex # undefined =>
                        /\ Truthy(response.continueParam)
                        /\ after.batches[after.lastBatchIndex + 1].id =
                               response.request.currentBatch.id
            /\ (~ResponseArrives(d) /\ after.lastBatchIndex # undefined) =>
                  /\ after.lastBatchIndex = lf.lastBatchIndex
                  /\ after.batches[after.lastBatchIndex + 1] =
                         lf.batches[lf.lastBatchIndex + 1]]_vars

\* a step that added ten titles or more has left the batch it fetched, with
\* its cursor, as the demotion candidate, and the next request is in flight
C34_Witness ==
    \E d \in Direction :
        LET lf == tree[d].linkFetcher
        IN /\ requests # <<>>
           /\ Last(requests).direction = d
           /\ lf.lastBatchIndex # undefined
           /\ Len(orch.newArticles) >= MIN_NEW_TITLES
           /\ history[d].cursors # <<>>


\* the step is a call of fetch() by the caller of a LinkFetcher on its own
FetchCalled ==
    /\ driver.mode = "rotate"
    /\ driver'.op.name = "fetch"
    /\ driver'.calls = driver.calls + 1

\* C35: fetch() called on a complete LinkFetcher sends no request, fulfils
\* its promise with an empty link map and leaves the LinkFetcher as it was;
\* explore() calls fetch() only on a LinkFetcher that is not complete, and
\* reports DeadEnd without a request when it is
C35_FetchWhenComplete ==
    [][/\ (FetchCalled /\ complete(fetcher)) =>
             /\ requests' = requests
             /\ requests = <<>>
             /\ response' = response
             /\ fetcher' = fetcher
             /\ driver'.status[1] = "resolved"
             /\ orch'.linkMap = <<>>
       /\ (FetchCalled /\ ~complete(fetcher) /\ fetcher.linkPromise = "none") =>
             Len(requests') = Len(requests) + 1
       /\ ExploreCalled =>
             LET asFetched == beforeFetch(tree[ExploredNext]).linkFetcher
             IN IF complete(asFetched)
                THEN /\ requests' = requests
                     /\ orch'.result = "DeadEnd"
                     /\ tree'[ExploredNext].linkFetcher = asFetched
                ELSE /\ Len(requests') = Len(requests) + 1
                     /\ orch'.result # "DeadEnd"]_vars

\* fetch() has been called on a LinkFetcher whose batches were all paged out
C35_Witness ==
    /\ driver.mode = "rotate"
    /\ driver.op.name = "fetch"
    /\ complete(driver.op.before)
    /\ driver.op.before.created >= 3
    /\ driver.status[1] = "resolved"
    /\ Cardinality(history["forward"].paged) >= 5

=============================================================================
